---- MODULE Spec2Model ----
(***************************************************************************)
(* A model of z7_vui: the interleaved stream reader (read_output over      *)
(* OutputReader, src/src/z7.rs) and the command orchestrator (Z7: the      *)
(* operation intake, the command loop and the read loop, joined by         *)
(* capacity-1 queues).                                                     *)
(*                                                                         *)
(* Two specifications share the module.  SpecReader runs read_output byte  *)
(* by byte over two sources whose contents Init draws from bounded sets.   *)
(* Spec runs the three tasks of Z7::start against an archiver child whose  *)
(* output reaches the command loop as whole line events.                   *)
(***************************************************************************)
EXTENDS Integers, Sequences, FiniteSets, TLC

VARIABLES
    \* ---- stream reader (read_output, OutputReader) ----
    stdout,     \* bytes the child's stdout still has to deliver before it closes
    stderr,     \* the same for stderr
    eof,        \* OutputReader.eof, indexed 1..2 for the source's [0], [1]
    str,        \* read_output's accumulators, indexed 1..2 for str[0], str[1]
    sent,       \* every value read_output has sent on opt_sender, in order
    rdone,      \* read_output has left its loop
    given,      \* history: the bytes each source was created with
    polledEof,  \* history: a source was polled although its eof flag was set
    \* ---- orchestrator: the fields of Z7 ----
    password,           \* Option<String>: <<>> is None, <<p>> is Some(p)
    selected_password,  \* Option<String>
    stdin_pipe,         \* Option<ChildStdin>: <<r>> is the stdin of the child of run r
    execute_status,     \* ExecuteStatus
    extract_to_path,    \* PathBuf, the sequence of its components
    \* ---- the queues (each mpsc::channel(1)) ----
    operQueue,          \* Operation, from the display and the read loop to the intake
    cmdQueue,           \* Cmd, from the intake to the command loop
    optQueue,           \* Option<(String, usize)>, from read_output to the read loop
    docQueue,           \* Pushment, from Z7 to the display
    \* ---- the tasks joined by Z7::start ----
    alive,              \* the join is still running (no task failed, sink open)
    pcOp,               \* operation_make: where the intake task stands
    oper,               \* operation_make: the Operation being handled
    should_retry,       \* operation_make: the local of the SelectPassword arm
    pcCmd,              \* executing_cmd: where the command loop stands
    cmd,                \* executing_cmd: the Cmd being run
    cmdPassword,        \* executing_cmd: its local copy of the password
    cmdExtractTo,       \* executing_cmd: its local copy of the extraction path
    pcRead,             \* read_document: where the read loop stands
    line,               \* read_document: the value received from opt_recv
    taken,              \* read_document: its local selected_password
    \* ---- the archiver child of the current run ----
    run,                \* number of children spawned so far
    childArgs,          \* the arguments each child was spawned with, by run
    childPrompted,      \* the child has printed its password prompt
    childGot,           \* the child's stdin has received a password
    childPrinted,       \* the child has printed its ordinary output
    childState,         \* "none", "running" or "exited"
    \* ---- the environment and history ----
    opsSent,            \* operations the display has sent so far
    writes,             \* history: password writes made to each run's stdin
    \* ---- a pure function on its own ----
    fnArg,              \* the argument the function is called with
    fnRes,              \* <<>> before the call, <<r>> once it has returned r
    \* ---- the Document shared by the tasks ----
    doc,                \* Document.lbs: the Lines of the current layout
    calls               \* the Document has been locked this many times

rvars == <<stdout, stderr, eof, str, sent, rdone, given, polledEof>>

zvars == <<password, selected_password, stdin_pipe, execute_status, extract_to_path,
           operQueue, cmdQueue, optQueue, docQueue,
           alive, pcOp, oper, should_retry,
           pcCmd, cmd, cmdPassword, cmdExtractTo,
           pcRead, line, taken,
           run, childArgs, childPrompted, childGot, childPrinted, childState,
           opsSent, writes>>

fvars == <<fnArg, fnRes>>

dvars == <<doc, calls>>

vars == <<rvars, zvars, fvars, dvars>>

(***************************************************************************)
(* Bytes and strings.  A string is the sequence of its bytes.              *)
(***************************************************************************)
LF == 10
BS == 8
COLON == 58
ByteA == 97
ByteB == 98

\* "Enter password"
EnterPassword == <<69, 110, 116, 101, 114, 32, 112, 97, 115, 115, 119, 111, 114, 100>>

starts_with(s, p) == Len(s) >= Len(p) /\ SubSeq(s, 1, Len(p)) = p

RECURSIVE Flatten(_)
Flatten(chunks) ==
    IF chunks = <<>> THEN <<>> ELSE Head(chunks) \o Flatten(Tail(chunks))

(***************************************************************************)
(* The inputs of the reader: each source delivers a concatenation of at    *)
(* most MaxChunks chunks and then closes.                                  *)
(***************************************************************************)
MaxChunks == 2

OutChunks == {<<ByteA>>, <<LF>>, <<COLON>>, <<BS>>, EnterPassword}
ErrChunks == {<<ByteB>>, <<LF>>, <<COLON>>, <<BS>>, EnterPassword}

SeqsUpTo(S, n) == UNION {[1..k -> S] : k \in 0..n}

OutInputs == {Flatten(c) : c \in SeqsUpTo(OutChunks, MaxChunks)}
ErrInputs == {Flatten(c) : c \in SeqsUpTo(ErrChunks, MaxChunks)}

(***************************************************************************)
(* Values on the output queue: Some((line, fd)) and None.                  *)
(***************************************************************************)
Some(text, fd) == [some |-> TRUE, text |-> text, fd |-> fd]
None == [some |-> FALSE, text |-> <<>>, fd |-> 0]

Source(from) == IF from = 1 THEN stdout ELSE stderr

(***************************************************************************)
(* OutputReader::read for the branch of select! that completes on source   *)
(* `from`: the byte read, or, at the end of the source, the eof flag set   *)
(* and a line feed in place of the error unless both sources have ended.   *)
(***************************************************************************)
ReadEof(from) == [eof EXCEPT ![from] = TRUE]

\* A reader that keeps polling a source after its end.
ReadPollableAlways(from) == TRUE

\* The guard of a select! branch: if !self.eof[from]
ReadPollable(from) == ~eof[from]

OutputReader_read(from) ==
    IF Source(from) # <<>>
    THEN [ok |-> TRUE, c |-> Head(Source(from)), eof |-> eof]
    ELSE LET e == ReadEof(from)
         IN  IF e[1] /\ e[2]
             THEN [ok |-> FALSE, c |-> 0, eof |-> e]
             ELSE [ok |-> TRUE, c |-> LF, eof |-> e]

(***************************************************************************)
(* The body of read_output's loop for a byte c of source `from`: the       *)
(* accumulator after it and the values sent.                               *)
(***************************************************************************)
\* A reader that cuts the line at every colon.
IsPromptColonAny(c, acc) == c = COLON

\* c == 0x3a && str[from].starts_with("Enter password")
IsPromptColon(c, acc) == c = COLON /\ starts_with(acc, EnterPassword)

OnByte(c, from) ==
    IF c = LF
    THEN [str |-> [str EXCEPT ![from] = <<>>], out |-> <<Some(str[from], from)>>]
    ELSE IF c = BS
    THEN [str |-> str, out |-> <<>>]
    ELSE IF IsPromptColon(c, str[from])
    THEN [str |-> [str EXCEPT ![from] = <<>>],
          out |-> <<Some(Append(str[from], c), from)>>]
    ELSE [str |-> [str EXCEPT ![from] = Append(str[from], c)], out |-> <<>>]

\* One iteration of read_output's loop, the select! completing on `from`.
read_output(from) ==
    /\ ~rdone
    /\ ReadPollable(from)
    /\ LET r == OutputReader_read(from)
       IN  /\ eof' = r.eof
           /\ polledEof' = (polledEof \/ eof[from])
           /\ IF from = 1
              THEN stdout' = (IF stdout = <<>> THEN stdout ELSE Tail(stdout))
                   /\ UNCHANGED stderr
              ELSE stderr' = (IF stderr = <<>> THEN stderr ELSE Tail(stderr))
                   /\ UNCHANGED stdout
           /\ IF r.ok
              THEN LET b == OnByte(r.c, from)
                   IN  /\ str' = b.str
                       /\ sent' = sent \o b.out
                       /\ UNCHANGED rdone
              ELSE /\ sent' = Append(sent, None)
                   /\ rdone' = TRUE
                   /\ UNCHANGED str
    /\ UNCHANGED <<given, zvars, fvars, dvars>>

(***************************************************************************)
(* The orchestrator: values.                                               *)
(***************************************************************************)
MaxOps == 2        \* operations the display sends in one run of the program

\* The passwords the user types and those of the password history.
TypedPasswords == {"p1"}
HistoryPasswords == {"p2"}
Dirs == {"out"}
FailCodes == {2}

\* The archive is <InitialDir>/<FileStem>.7z.
File == "dir/arc.7z"
InitialDir == <<"dir">>
FileStem == "arc"

PromptLine == "Enter password (will not be echoed):"
OtherLine == "line"
EmptyLine == ""

\* line.starts_with("Enter password")
IsPrompt(l) == l = PromptLine

Op(kind, arg) == [op |-> kind, arg |-> arg]

UserOps ==
    {Op("Password", p) : p \in TypedPasswords}
    \cup {Op("SelectPassword", p) : p \in HistoryPasswords}
    \cup {Op("ExtractTo", d) : d \in Dirs}
    \cup {Op("Execute", ""), Op("Retry", "")}

NoOp == Op("", "")

\* ExecuteStatus::None, ::Pedding, ::List(exit), ::Extract(exit)
Status(tag, code) == [tag |-> tag, code |-> code]
StatusNone == Status("None", 0)
Pedding == Status("Pedding", 0)

PASSWORD_LINE == 6

\* Pushment::Full(lines, cursor) and Pushment::Line(index, text); the lines of
\* a Full are not part of this model.
Full(cursor) == [kind |-> "Full", cursor |-> cursor, index |-> 0, text |-> <<>>]
PushLine(index, text) == [kind |-> "Line", cursor |-> <<>>, index |-> index, text |-> text]

\* FileListLB::default(): header_line, begin_line, end_line and template are
\* Options, <<>> for None and <<v>> for Some(v).
FileListLB_default ==
    [inner |-> <<>>, header_line |-> <<>>, begin_line |-> <<>>, end_line |-> <<>>,
     template |-> <<>>, summary_line |-> <<>>, capture |-> FALSE,
     extract_path |-> <<>>]

\* Lines::new(), the value Document::new() wraps: no line builder at all.
Document_new == [inner |-> <<>>, file_list_lb |-> FileListLB_default]

\* mpsc::channel(1)
QueueCapacity == 1
HasRoom(q) == Len(q) < QueueCapacity

\* The variables of each task, of the child and of the shared fields.
OpVars == <<pcOp, oper, should_retry>>
CmdVars == <<pcCmd, cmd, cmdPassword, cmdExtractTo>>
ReadVars == <<pcRead, line, taken>>
ChildVars == <<run, childArgs, childPrompted, childGot, childPrinted, childState>>

(***************************************************************************)
(* Locks held across an await.  Every other lock is taken and released     *)
(* inside one step.  The command loop keeps the write locks of             *)
(* execute_status, document and extract_to_path while it waits to send     *)
(* Pushment::Line.  Where each lock acquisition is a step of its own       *)
(* (SpecLock), the command loop at "layout" holds the Document while it    *)
(* waits for extract_to_path, and the intake at "extractTo_doc" holds      *)
(* extract_to_path while it waits for the Document.                        *)
(***************************************************************************)
StatusLocked == pcCmd = "sendLine"
DocLocked == pcCmd \in {"sendLine", "layout"}
ExtractLocked == pcCmd = "sendLine" \/ pcOp = "extractTo_doc"

(***************************************************************************)
(* The display: NeovimHandler::handle_notify try_sends an Operation, which *)
(* is dropped when the queue is full; Nvim::start receives the Pushments.  *)
(* The display stays open: the supervisory task of Z7::start, which ends   *)
(* the join when the display closes, takes no step.                        *)
(***************************************************************************)
UserOpUpTo(o, n) ==
    /\ alive
    /\ opsSent < n
    /\ HasRoom(operQueue)
    /\ operQueue' = Append(operQueue, o)
    /\ opsSent' = opsSent + 1
    /\ UNCHANGED <<password, selected_password, stdin_pipe, execute_status,
                   extract_to_path, cmdQueue, optQueue, docQueue, alive, writes>>
    /\ UNCHANGED <<OpVars, CmdVars, ReadVars, ChildVars, rvars, fvars, dvars>>

UserOp(o) == UserOpUpTo(o, MaxOps)

DisplayRecv ==
    /\ alive
    /\ docQueue # <<>>
    /\ docQueue' = Tail(docQueue)
    /\ UNCHANGED <<password, selected_password, stdin_pipe, execute_status,
                   extract_to_path, operQueue, cmdQueue, optQueue, alive, opsSent,
                   writes>>
    /\ UNCHANGED <<OpVars, CmdVars, ReadVars, ChildVars, rvars, fvars, dvars>>

(***************************************************************************)
(* operation_make: the operation intake.                                   *)
(***************************************************************************)
\* What no step of the intake changes.
OpFrame == <<execute_status, optQueue, docQueue, opsSent, CmdVars, ReadVars, run,
             childArgs, childPrompted, childPrinted, childState, rvars, fvars, dvars>>

OpArm(o) ==
    CASE o.op = "Execute" -> "execute"
      [] o.op = "Retry" -> "retry"
      [] o.op = "ExtractTo" -> "extractTo"
      [] o.op = "Password" -> "wp_stdin"
      [] o.op = "SelectPassword" -> "sp_status"

\* The arm is done: back to oper_recv.recv().
OpDone == pcOp' = "recv" /\ oper' = NoOp /\ should_retry' = FALSE

\* oper_recv.recv()
OpRecv ==
    /\ alive /\ pcOp = "recv"
    /\ operQueue # <<>>
    /\ oper' = Head(operQueue)
    /\ operQueue' = Tail(operQueue)
    /\ pcOp' = OpArm(Head(operQueue))
    /\ UNCHANGED <<password, selected_password, stdin_pipe, extract_to_path, cmdQueue,
                   alive, should_retry, childGot, writes>>
    /\ UNCHANGED OpFrame

\* Operation::Execute: cmd_sender.send(Cmd::Extract) waits for room.
OpExecute ==
    /\ alive /\ pcOp = "execute"
    /\ HasRoom(cmdQueue)
    /\ cmdQueue' = Append(cmdQueue, "Extract")
    /\ OpDone
    /\ UNCHANGED <<password, selected_password, stdin_pipe, extract_to_path, operQueue,
                   alive, childGot, writes>>
    /\ UNCHANGED OpFrame

\* cmd_sender.try_send(c): queued when there is room, dropped otherwise.
try_send(q, c) == IF HasRoom(q) THEN Append(q, c) ELSE q

\* A Retry that keeps the stored password.
RetryPasswordKept == password

\* What Operation::Retry leaves in the stored password: password.take().
RetryPassword == <<>>

\* Operation::Retry
OpRetry ==
    /\ alive /\ pcOp = "retry"
    /\ password' = RetryPassword
    /\ cmdQueue' = try_send(cmdQueue, "List")
    /\ OpDone
    /\ UNCHANGED <<selected_password, stdin_pipe, extract_to_path, operQueue,
                   alive, childGot, writes>>
    /\ UNCHANGED OpFrame

\* Operation::ExtractTo(path): set_extract_to_path.
set_extract_to_path ==
    /\ alive /\ pcOp = "extractTo"
    /\ ~ExtractLocked /\ ~DocLocked
    /\ extract_to_path' = <<oper.arg>>
    /\ OpDone
    /\ UNCHANGED <<password, selected_password, stdin_pipe, operQueue, cmdQueue,
                   alive, childGot, writes>>
    /\ UNCHANGED OpFrame

\* The child of run r is running: a write to its stdin succeeds.
ChildRunning(r) == r = run /\ childState = "running"

\* A write_password that leaves the handle in the slot.
StdinAfterWriteKept == stdin_pipe

\* What write_password leaves in the stdin slot: stdin.take().
StdinAfterWrite == <<>>

\* write_password, first block: stdin.take() and write_all on the handle taken.
\* write_all fails on the stdin of a child that has exited, and the expect
\* panics.
WpStdin ==
    /\ alive /\ pcOp = "wp_stdin"
    /\ IF stdin_pipe # <<>>
       THEN LET h == stdin_pipe[1]
            IN  /\ stdin_pipe' = StdinAfterWrite
                /\ writes' = [writes EXCEPT ![h] = @ + 1]
                /\ IF ChildRunning(h)
                   THEN childGot' = TRUE /\ alive' = TRUE /\ pcOp' = "wp_password"
                   ELSE UNCHANGED childGot /\ alive' = FALSE /\ pcOp' = "panicked"
       ELSE /\ pcOp' = "wp_password"
            /\ UNCHANGED <<stdin_pipe, writes, childGot, alive>>
    /\ UNCHANGED <<password, selected_password, extract_to_path, operQueue, cmdQueue,
                   oper, should_retry>>
    /\ UNCHANGED OpFrame

\* write_password, second block: record the password unless it is the one
\* already recorded.
WpPassword ==
    /\ alive /\ pcOp = "wp_password"
    /\ IF password = <<oper.arg>>
       THEN OpDone /\ UNCHANGED password
       ELSE pcOp' = "wp_doc" /\ password' = <<oper.arg>> /\ UNCHANGED <<oper, should_retry>>
    /\ UNCHANGED <<selected_password, stdin_pipe, extract_to_path, operQueue, cmdQueue,
                   alive, childGot, writes>>
    /\ UNCHANGED OpFrame

\* write_password, third block: doc.input("Input password: ...").
WpDoc ==
    /\ alive /\ pcOp = "wp_doc"
    /\ ~DocLocked
    /\ OpDone
    /\ UNCHANGED <<password, selected_password, stdin_pipe, extract_to_path, operQueue,
                   cmdQueue, alive, childGot, writes>>
    /\ UNCHANGED OpFrame

\* A SelectPassword that relists only from ExecuteStatus::None.
ShouldRetryIdle(status) == status.tag = "None"

\* !matches!(*status, ExecuteStatus::Pedding)
ShouldRetry(status) == status.tag # "Pedding"

\* Operation::SelectPassword: read execute_status.
SpStatus ==
    /\ alive /\ pcOp = "sp_status"
    /\ ~StatusLocked
    /\ should_retry' = ShouldRetry(execute_status)
    /\ pcOp' = (IF ShouldRetry(execute_status) THEN "sp_clear" ELSE "wp_stdin")
    /\ UNCHANGED <<password, selected_password, stdin_pipe, extract_to_path, operQueue,
                   cmdQueue, alive, oper, childGot, writes>>
    /\ UNCHANGED OpFrame

\* should_retry: password.take()
SpClear ==
    /\ alive /\ pcOp = "sp_clear"
    /\ password' = <<>>
    /\ pcOp' = "sp_send"
    /\ UNCHANGED <<selected_password, stdin_pipe, extract_to_path, operQueue,
                   cmdQueue, alive, oper, should_retry, childGot, writes>>
    /\ UNCHANGED OpFrame

\* should_retry: cmd_sender.send(Cmd::List) waits for room.
SpSend ==
    /\ alive /\ pcOp = "sp_send"
    /\ HasRoom(cmdQueue)
    /\ cmdQueue' = Append(cmdQueue, "List")
    /\ pcOp' = "sp_stash"
    /\ UNCHANGED <<password, selected_password, stdin_pipe, extract_to_path, operQueue,
                   alive, oper, should_retry, childGot, writes>>
    /\ UNCHANGED OpFrame

\* should_retry: selected_password.replace(pwd)
SpStash ==
    /\ alive /\ pcOp = "sp_stash"
    /\ selected_password' = <<oper.arg>>
    /\ OpDone
    /\ UNCHANGED <<password, stdin_pipe, extract_to_path, operQueue, cmdQueue,
                   alive, childGot, writes>>
    /\ UNCHANGED OpFrame

(***************************************************************************)
(* executing_cmd: the command loop, with execute_cmd and, line by line,    *)
(* read_output over the child of the run.                                  *)
(***************************************************************************)
\* What no step of the command loop changes.
CmdFrame == <<selected_password, operQueue, opsSent, OpVars, ReadVars, rvars, fvars, dvars>>

\* cmd_recv.recv()
CmdRecv ==
    /\ alive /\ pcCmd = "recv"
    /\ cmdQueue # <<>>
    /\ cmd' = Head(cmdQueue)
    /\ cmdQueue' = Tail(cmdQueue)
    /\ pcCmd' = "pending"
    /\ UNCHANGED <<password, stdin_pipe, execute_status, extract_to_path, optQueue,
                   docQueue, alive, writes, cmdPassword, cmdExtractTo, ChildVars>>
    /\ UNCHANGED CmdFrame

\* *status = ExecuteStatus::Pedding
CmdSetPending ==
    /\ alive /\ pcCmd = "pending"
    /\ execute_status' = Pedding
    /\ pcCmd' = "password"
    /\ UNCHANGED <<password, stdin_pipe, extract_to_path, cmdQueue, optQueue, docQueue,
                   alive, writes, cmd, cmdPassword, cmdExtractTo, ChildVars>>
    /\ UNCHANGED CmdFrame

\* let password = self.password.read().await.clone(), then the layout of the
\* Document: layout_list and the two synthetic lines, or layout_extract.
CmdReadPassword ==
    /\ alive /\ pcCmd = "password"
    /\ cmdPassword' = password
    /\ pcCmd' = (IF cmd = "List" THEN "spawn" ELSE "extractPath")
    /\ UNCHANGED <<password, stdin_pipe, execute_status, extract_to_path, cmdQueue,
                   optQueue, docQueue, alive, writes, cmd, cmdExtractTo, ChildVars>>
    /\ UNCHANGED CmdFrame

\* Cmd::Extract: the local copy of extract_to_path.
CmdReadExtractPath ==
    /\ alive /\ pcCmd = "extractPath"
    /\ ~ExtractLocked
    /\ cmdExtractTo' = extract_to_path
    /\ pcCmd' = "spawn"
    /\ UNCHANGED <<password, stdin_pipe, execute_status, extract_to_path, cmdQueue,
                   optQueue, docQueue, alive, writes, cmd, cmdPassword, ChildVars>>
    /\ UNCHANGED CmdFrame

\* A launch that passes "-p" whether or not there is a password.
PasswordArgAlways(pwd) == <<(<<"-p">> \o pwd)>>

\* password.map(|s| format!("-p{}", s)): no argument when there is no password.
PasswordArg(pwd) == IF pwd = <<>> THEN <<>> ELSE <<(<<"-p", pwd[1]>>)>>

execute_list(filename, pwd) == <<(<<"l">>), <<filename>>>> \o PasswordArg(pwd)

execute_extract(filename, pwd, path) ==
    <<(<<"x">>), <<filename>>, <<"-y">>, <<"-o">> \o path>> \o PasswordArg(pwd)

\* execute_cmd: spawn_cmd(args)
CmdSpawn ==
    /\ alive /\ pcCmd = "spawn"
    /\ run' = run + 1
    /\ writes' = Append(writes, 0)
    /\ childArgs' = (IF cmd = "List" THEN execute_list(File, cmdPassword)
                     ELSE execute_extract(File, cmdPassword, cmdExtractTo))
    /\ childState' = "running"
    /\ childPrompted' = FALSE
    /\ childGot' = FALSE
    /\ childPrinted' = FALSE
    /\ pcCmd' = "stdin"
    /\ UNCHANGED <<password, stdin_pipe, execute_status, extract_to_path, cmdQueue,
                   optQueue, docQueue, alive, cmd, cmdPassword, cmdExtractTo>>
    /\ UNCHANGED CmdFrame

\* execute_cmd: spawn_cmd fails, `?` returns the error and the join ends.
CmdSpawnFails ==
    /\ alive /\ pcCmd = "spawn"
    /\ alive' = FALSE
    /\ pcCmd' = "failed"
    /\ UNCHANGED <<password, stdin_pipe, execute_status, extract_to_path, cmdQueue,
                   optQueue, docQueue, writes, cmd, cmdPassword, cmdExtractTo, ChildVars>>
    /\ UNCHANGED CmdFrame

\* The handle execute_cmd puts in the stdin slot: the stdin of the new child.
NewStdin == <<run>>

\* execute_cmd: stdin_pipe.write().await.replace(child.stdin.take().unwrap())
CmdInstallStdin ==
    /\ alive /\ pcCmd = "stdin"
    /\ stdin_pipe' = NewStdin
    /\ pcCmd' = "read"
    /\ UNCHANGED <<password, execute_status, extract_to_path, cmdQueue, optQueue,
                   docQueue, alive, writes, cmd, cmdPassword, cmdExtractTo, ChildVars>>
    /\ UNCHANGED CmdFrame

\* What the steps of read_output leave alone.
ReadOutputFrame == <<password, stdin_pipe, execute_status, extract_to_path, cmdQueue,
                     docQueue, alive, writes, cmd, cmdPassword, cmdExtractTo, run,
                     childArgs, childGot>>

\* The child prints its ordinary output, which read_output sends as a line of
\* stdout.  A child that has prompted prints nothing until it has a password.
CmdReadLine ==
    /\ alive /\ pcCmd = "read"
    /\ childState = "running"
    /\ childPrompted => childGot
    /\ ~childPrinted
    /\ HasRoom(optQueue)
    /\ optQueue' = Append(optQueue, Some(OtherLine, 1))
    /\ childPrinted' = TRUE
    /\ UNCHANGED <<pcCmd, childPrompted, childState>>
    /\ UNCHANGED ReadOutputFrame
    /\ UNCHANGED CmdFrame

\* The child prints its password prompt, which read_output sends at the colon;
\* the child then reads its stdin.
CmdReadPrompt ==
    /\ alive /\ pcCmd = "read"
    /\ childState = "running"
    /\ ~childPrompted
    /\ HasRoom(optQueue)
    /\ optQueue' = Append(optQueue, Some(PromptLine, 1))
    /\ childPrompted' = TRUE
    /\ UNCHANGED <<pcCmd, childPrinted, childState>>
    /\ UNCHANGED ReadOutputFrame
    /\ UNCHANGED CmdFrame

\* The child exits, unless it waits for a password on its stdin.
ChildExit ==
    /\ alive
    /\ childState = "running"
    /\ childPrompted => childGot
    /\ childState' = "exited"
    /\ UNCHANGED <<pcCmd, optQueue, childPrompted, childPrinted>>
    /\ UNCHANGED ReadOutputFrame
    /\ UNCHANGED CmdFrame

\* The first source to end: OutputReader::read returns a line feed and
\* read_output sends that source's (empty) accumulator.
CmdReadEof ==
    /\ alive /\ pcCmd = "read"
    /\ childState = "exited"
    /\ HasRoom(optQueue)
    /\ optQueue' = Append(optQueue, Some(EmptyLine, 2))
    /\ pcCmd' = "eof"
    /\ UNCHANGED <<childPrompted, childPrinted, childState>>
    /\ UNCHANGED ReadOutputFrame
    /\ UNCHANGED CmdFrame

\* A read_output that returns without sending the end signal.
CmdReadEndSilent ==
    /\ alive /\ pcCmd = "eof"
    /\ pcCmd' = "wait"
    /\ UNCHANGED <<optQueue, childPrompted, childPrinted, childState>>
    /\ UNCHANGED ReadOutputFrame
    /\ UNCHANGED CmdFrame

\* Both sources have ended: read_output sends None and returns.
CmdReadEnd ==
    /\ alive /\ pcCmd = "eof"
    /\ HasRoom(optQueue)
    /\ optQueue' = Append(optQueue, None)
    /\ pcCmd' = "wait"
    /\ UNCHANGED <<childPrompted, childPrinted, childState>>
    /\ UNCHANGED ReadOutputFrame
    /\ UNCHANGED CmdFrame

\* A loop that records every failure as a failed List.
FailedStatusList(c, code) == Status("List", code)

\* The status recorded for a command that exits with a nonzero code.
FailedStatus(c, code) ==
    IF c = "List" THEN Status("List", code) ELSE Status("Extract", code)

success(code) == code = 0

\* A loop that keeps the stored password of a failed command.
PasswordAfterFailureKept == password

\* What a failed command leaves in the stored password:
\* self.password.write().await.take()
PasswordAfterFailure == <<>>

\* The iteration is over: its locals and its child are gone.
CmdDone ==
    /\ cmd' = "" /\ cmdPassword' = <<>> /\ cmdExtractTo' = <<>>
    /\ childArgs' = <<>> /\ childState' = "none"
    /\ childPrompted' = FALSE /\ childGot' = FALSE /\ childPrinted' = FALSE

\* child.wait() and the block after the command: the outcome is recorded
\* under the execute_status write lock.  sameDir stands for
\* check_same_directory(&doc.files()).is_some().
CmdFinish ==
    /\ alive /\ pcCmd = "wait"
    /\ \E exit_status \in {0} \cup FailCodes :
         IF success(exit_status)
         THEN /\ execute_status' = StatusNone
              /\ UNCHANGED password
              /\ \E sameDir \in BOOLEAN :
                   IF cmd = "List" /\ ~sameDir
                   THEN /\ extract_to_path' = Append(extract_to_path, FileStem)
                        /\ pcCmd' = "sendLine"
                   ELSE /\ UNCHANGED extract_to_path
                        /\ pcCmd' = "recv"
         ELSE /\ password' = PasswordAfterFailure
              /\ execute_status' = FailedStatus(cmd, exit_status)
              /\ pcCmd' = "recv"
              /\ UNCHANGED extract_to_path
    /\ CmdDone
    /\ UNCHANGED <<stdin_pipe, cmdQueue, optQueue, docQueue, alive, writes, run>>
    /\ UNCHANGED CmdFrame

\* doc_sender.send(Pushment::Line(4, input)), the locks still held.
CmdSendLine ==
    /\ alive /\ pcCmd = "sendLine"
    /\ HasRoom(docQueue)
    /\ docQueue' = Append(docQueue, PushLine(4, extract_to_path))
    /\ pcCmd' = "recv"
    /\ UNCHANGED <<password, stdin_pipe, execute_status, extract_to_path, cmdQueue,
                   optQueue, alive, writes, cmd, cmdPassword, cmdExtractTo, ChildVars>>
    /\ UNCHANGED CmdFrame

(***************************************************************************)
(* read_document: the read loop.                                           *)
(***************************************************************************)
\* What no step of the read loop changes.
ReadFrame == <<password, stdin_pipe, execute_status, extract_to_path, cmdQueue, alive,
               opsSent, writes, OpVars, CmdVars, ChildVars, rvars, fvars, dvars>>

\* Back to opt_recv.recv().
ReadDone == pcRead' = "recv" /\ line' = None /\ taken' = <<>>

\* opt_recv.recv(); then, for a line, doc.input(line) and, if it is a prompt,
\* doc.input("Password history file: ...") and doc.output(); for the end
\* signal, doc.output().
ReadRecv ==
    /\ alive /\ pcRead = "recv"
    /\ optQueue # <<>>
    /\ ~DocLocked
    /\ optQueue' = Tail(optQueue)
    /\ LET v == Head(optQueue)
       IN  IF v.some /\ ~IsPrompt(v.text)
           THEN ReadDone
           ELSE /\ line' = v
                /\ pcRead' = (IF v.some THEN "take" ELSE "sendFull")
                /\ UNCHANGED taken
    /\ UNCHANGED <<selected_password, operQueue, docQueue>>
    /\ UNCHANGED ReadFrame

\* What the read loop leaves in selected_password at a prompt:
\* selected_password.take().
StashAfterTake == <<>>

\* A prompt: selected_password.take()
ReadTake ==
    /\ alive /\ pcRead = "take"
    /\ taken' = selected_password
    /\ selected_password' = StashAfterTake
    /\ pcRead' = "sendFull"
    /\ UNCHANGED <<operQueue, optQueue, docQueue, line>>
    /\ UNCHANGED ReadFrame

\* The cursor hint of the Full sent at a prompt.
CursorHint(sel) == IF sel = <<>> THEN <<PASSWORD_LINE, 1>> ELSE <<>>

\* The Operation the read loop submits after the Full of a prompt.
AutoSubmit(sel) == IF sel = <<>> THEN <<>> ELSE <<Op("Password", sel[1])>>

\* doc_sender.send(Pushment::Full(lines, cursor)) waits for room.
ReadSendFull ==
    /\ alive /\ pcRead = "sendFull"
    /\ HasRoom(docQueue)
    /\ docQueue' = Append(docQueue,
                          Full(IF line.some THEN CursorHint(taken) ELSE <<>>))
    /\ IF line.some /\ AutoSubmit(taken) # <<>>
       THEN pcRead' = "sendOper" /\ UNCHANGED <<line, taken>>
       ELSE ReadDone
    /\ UNCHANGED <<selected_password, operQueue, optQueue>>
    /\ UNCHANGED ReadFrame

\* oper_sender.send(Operation::Password(pwd)) waits for room.
ReadSendOper ==
    /\ alive /\ pcRead = "sendOper"
    /\ HasRoom(operQueue)
    /\ operQueue' = operQueue \o AutoSubmit(taken)
    /\ ReadDone
    /\ UNCHANGED <<selected_password, optQueue, docQueue>>
    /\ UNCHANGED ReadFrame

(***************************************************************************)
(* Z7::new and Z7::start: the state when the four tasks are joined.        *)
(* Cmd::List is already queued.                                            *)
(***************************************************************************)
InitZ7 ==
    /\ password = <<>>
    /\ selected_password = <<>>
    /\ stdin_pipe = <<>>
    /\ execute_status = StatusNone
    /\ extract_to_path = InitialDir
    /\ operQueue = <<>>
    /\ cmdQueue = <<"List">>
    /\ optQueue = <<>>
    /\ docQueue = <<>>
    /\ alive = TRUE
    /\ pcOp = "recv"
    /\ oper = NoOp
    /\ should_retry = FALSE
    /\ pcCmd = "recv"
    /\ cmd = ""
    /\ cmdPassword = <<>>
    /\ cmdExtractTo = <<>>
    /\ pcRead = "recv"
    /\ line = None
    /\ taken = <<>>
    /\ run = 0
    /\ childArgs = <<>>
    /\ childPrompted = FALSE
    /\ childGot = FALSE
    /\ childPrinted = FALSE
    /\ childState = "none"
    /\ opsSent = 0
    /\ writes = <<>>

\* The reader's variables while the orchestrator runs.
ReaderIdle ==
    /\ stdout = <<>> /\ stderr = <<>>
    /\ eof = <<FALSE, FALSE>>
    /\ str = <<<<>>, <<>>>>
    /\ sent = <<>>
    /\ rdone = FALSE
    /\ given = <<<<>>, <<>>>>
    /\ polledEof = FALSE

\* No function is being run on its own.
FnIdle == fnArg = <<>> /\ fnRes = <<>>

\* Document::new(), before any task has locked it.
DocIdle == doc = Document_new /\ calls = 0

InitReader ==
    /\ FnIdle /\ DocIdle
    /\ stdout \in OutInputs
    /\ stderr \in ErrInputs
    /\ eof = <<FALSE, FALSE>>
    /\ str = <<<<>>, <<>>>>
    /\ sent = <<>>
    /\ rdone = FALSE
    /\ given = <<stdout, stderr>>
    /\ polledEof = FALSE
    /\ InitZ7

NextReader == \E from \in 1..2 : read_output(from)

SpecReader == InitReader /\ [][NextReader]_vars

Init == ReaderIdle /\ InitZ7 /\ FnIdle /\ DocIdle

\* A step of the display's receiver, of one of the three tasks or of the child.
TaskStep ==
    \/ DisplayRecv
    \/ OpRecv \/ OpExecute \/ OpRetry \/ set_extract_to_path
    \/ WpStdin \/ WpPassword \/ WpDoc
    \/ SpStatus \/ SpClear \/ SpSend \/ SpStash
    \/ CmdRecv \/ CmdSetPending \/ CmdReadPassword \/ CmdReadExtractPath
    \/ CmdSpawn \/ CmdSpawnFails \/ CmdInstallStdin
    \/ CmdReadLine \/ CmdReadPrompt \/ ChildExit \/ CmdReadEof \/ CmdReadEnd
    \/ CmdFinish \/ CmdSendLine
    \/ ReadRecv \/ ReadTake \/ ReadSendFull \/ ReadSendOper

Next ==
    \/ \E o \in UserOps : UserOp(o)
    \/ TaskStep

Spec == Init /\ [][Next]_vars

\* The same program under the scheduling of the tokio runtime: a task that
\* can take a step is polled, the display keeps receiving and the child runs
\* on.  The display owes the program no operation.
SpecFair == Spec /\ WF_vars(TaskStep)

(***************************************************************************)
(* The same program with every lock acquisition of set_extract_to_path and *)
(* of the start of a command as a step of its own (checked under           *)
(* SpecLock): an acquisition is an await, at which the runtime may poll    *)
(* another task.                                                           *)
(***************************************************************************)
\* set_extract_to_path: extract_to_path.write().await, then, with that lock
\* held, document.write().await and the two assignments.
ExtractToByLocks ==
    /\ alive /\ pcOp \in {"extractTo", "extractTo_doc"}
    /\ IF pcOp = "extractTo"
       THEN /\ ~ExtractLocked
            /\ pcOp' = "extractTo_doc"
            /\ UNCHANGED <<extract_to_path, oper, should_retry>>
       ELSE /\ ~DocLocked
            /\ extract_to_path' = <<oper.arg>>
            /\ OpDone
    /\ UNCHANGED <<password, selected_password, stdin_pipe, operQueue, cmdQueue,
                   alive, childGot, writes>>
    /\ UNCHANGED OpFrame

\* executing_cmd before the child is spawned: password.read().await, then
\* document.write().await for the layout and, for a List, with the Document
\* held, extract_to_path.read().await.
LayoutByLocks ==
    /\ alive /\ pcCmd \in {"password", "layout_doc", "layout"}
    /\ CASE pcCmd = "password" ->
              cmdPassword' = password /\ pcCmd' = "layout_doc"
         [] pcCmd = "layout_doc" ->
              /\ ~DocLocked
              /\ pcCmd' = (IF cmd = "List" THEN "layout" ELSE "extractPath")
              /\ UNCHANGED cmdPassword
         [] pcCmd = "layout" ->
              /\ ~ExtractLocked
              /\ pcCmd' = "spawn"
              /\ UNCHANGED cmdPassword
    /\ UNCHANGED <<password, stdin_pipe, execute_status, extract_to_path, cmdQueue,
                   optQueue, docQueue, alive, writes, cmd, cmdExtractTo, ChildVars>>
    /\ UNCHANGED CmdFrame

SpecLock ==
    Init /\ [][\/ \E o \in UserOps : UserOp(o)
               \/ DisplayRecv
               \/ OpRecv \/ OpExecute \/ OpRetry \/ ExtractToByLocks
               \/ WpStdin \/ WpPassword \/ WpDoc
               \/ SpStatus \/ SpClear \/ SpSend \/ SpStash
               \/ CmdRecv \/ CmdSetPending \/ LayoutByLocks \/ CmdReadExtractPath
               \/ CmdSpawn \/ CmdSpawnFails \/ CmdInstallStdin
               \/ CmdReadLine \/ CmdReadPrompt \/ ChildExit \/ CmdReadEof
               \/ CmdReadEnd \/ CmdFinish \/ CmdSendLine
               \/ ReadRecv \/ ReadTake \/ ReadSendFull \/ ReadSendOper]_vars

\* The same program with one more operation from the display.
NextDeep ==
    \/ \E o \in UserOps : UserOpUpTo(o, MaxOps + 1)
    \/ TaskStep

SpecDeep == Init /\ [][NextDeep]_vars

(***************************************************************************)
(* Text of the Document and of file names: a string is the sequence of its *)
(* characters, each a one-character string.  Every character used is one   *)
(* byte long in UTF-8 unless WideChar says otherwise.                      *)
(***************************************************************************)
Rep(c, n) == [i \in 1..n |-> c]

\* The ranges before the loop: Default::default() of [Range<usize>; 5].
Range(a, b) == [start |-> a, end |-> b]
NoRanges == [k \in 1..5 |-> Range(0, 0)]

(***************************************************************************)
(* parse_dash_line_to_range.  The state of its loop: the ranges ra (ra[k]  *)
(* of the model is ra[k-1] of the code), cur_i, start, len and last_c; ok  *)
(* turns FALSE when ra[cur_i] is indexed with cur_i = 5, which panics.     *)
(***************************************************************************)
DashStart == [ok |-> TRUE, ra |-> NoRanges, cur_i |-> 0, start |-> 0, len |-> 0,
              last_c |-> " "]

\* ra[cur_i].start = a; ra[cur_i].end = b
SetRange(st, a, b) ==
    IF st.cur_i >= 5
    THEN [st EXCEPT !.ok = FALSE]
    ELSE [st EXCEPT !.ra[st.cur_i + 1] = Range(a, b)]

\* The body of the loop for the character c at index i.
DashStep(st, i, c) ==
    LET st1 == [st EXCEPT !.len = @ + 1]
    IN  IF ~st.ok THEN st
        ELSE IF c = " "
        THEN IF st1.last_c = " "
             THEN [st1 EXCEPT !.start = i + 1]
             ELSE LET st2 == SetRange(st1, st1.start, i)
                  IN  [st2 EXCEPT !.cur_i = @ + 1, !.start = i + 1, !.last_c = c]
        ELSE [st1 EXCEPT !.last_c = c]

RECURSIVE DashLoop(_, _, _)
DashLoop(chars, i, st) ==
    IF i >= Len(chars) THEN st
    ELSE DashLoop(chars, i + 1, DashStep(st, i, chars[i + 1]))

\* The value returned, or ok = FALSE for a panic.
parse_dash_line_to_range(chars) ==
    LET st == DashLoop(chars, 0, DashStart)
        fin == IF st.ok THEN SetRange(st, st.start, st.len) ELSE st
    IN  [ok |-> fin.ok, ra |-> fin.ra]

\* Dashed header lines of five runs: run k is RunLen[k] dashes, Gap[k] spaces
\* follow run k for k < 5, and Trail spaces follow the fifth.
MaxRun == 2
MaxGap == 2
MaxTrail == 1

RECURSIVE DashLine(_, _, _)
DashLine(runs, gaps, trail) ==
    IF Len(runs) = 1 THEN Rep("-", runs[1]) \o Rep(" ", trail)
    ELSE Rep("-", runs[1]) \o Rep(" ", gaps[1])
         \o DashLine(Tail(runs), Tail(gaps), trail)

\* The two lines of test_parse_dash_line_to_range.
TestDashLines ==
    {DashLine(<<3, 3, 4, 4, 5>>, <<1, 1, 1, 1>>, 0),
     DashLine(<<3, 3, 4, 4, 5>>, <<1, 1, 1, 2>>, 0)}

DashLines ==
    TestDashLines
    \cup {DashLine(runs, gaps, trail) :
            runs \in [1..5 -> 1..MaxRun], gaps \in [1..4 -> 1..MaxGap],
            trail \in 0..MaxTrail}

InitDash ==
    /\ ReaderIdle /\ InitZ7 /\ DocIdle
    /\ fnArg \in DashLines
    /\ fnRes = <<>>

\* FileListLB::input at the first rule: parse_dash_line_to_range(str).
CallParseDash ==
    /\ fnRes = <<>>
    /\ fnRes' = <<parse_dash_line_to_range(fnArg)>>
    /\ UNCHANGED <<fnArg, rvars, zvars, dvars>>

SpecDash == InitDash /\ [][CallParseDash]_vars

(***************************************************************************)
(* check_same_directory.  prefix.chars() counts characters while           *)
(* prefix.truncate(i) cuts at a byte index, and panics when the index is   *)
(* inside a character.                                                     *)
(***************************************************************************)
\* The length of a character in UTF-8; "U+00E9" and "U+65E5" each stand for
\* the one character of that code point.
Utf8Len(c) == CASE c = "U+00E9" -> 2 [] c = "U+65E5" -> 3 [] OTHER -> 1

RECURSIVE ByteLen(_)
ByteLen(chars) == IF chars = <<>> THEN 0 ELSE Utf8Len(Head(chars)) + ByteLen(Tail(chars))

\* String::truncate(n): no effect when n is not less than the length in
\* bytes, a cut when n is a character boundary, a panic otherwise.
truncate(chars, n) ==
    IF n >= ByteLen(chars) THEN [ok |-> TRUE, val |-> chars]
    ELSE IF \E k \in 0..Len(chars) : ByteLen(SubSeq(chars, 1, k)) = n
    THEN [ok |-> TRUE,
          val |-> SubSeq(chars, 1,
                         CHOOSE k \in 0..Len(chars) : ByteLen(SubSeq(chars, 1, k)) = n)]
    ELSE [ok |-> FALSE, val |-> chars]

\* The inner loop over prefix.chars().zip(file.chars().chain(repeat('/'))),
\* from the j-th pair on: the value of i when it ends.
RECURSIVE ZipCount(_, _, _)
ZipCount(prefix, file, j) ==
    IF j > Len(prefix) THEN j - 1
    ELSE LET a == prefix[j]
             b == IF j <= Len(file) THEN file[j] ELSE "/"
         IN  IF a # b THEN j - 1
             ELSE IF a = "/" THEN j
             ELSE ZipCount(prefix, file, j + 1)

\* The outer loop: `for file in iter`, over the names after the first.
RECURSIVE DirLoop(_, _)
DirLoop(st, rest) ==
    IF rest = <<>> \/ ~st.ok THEN st
    ELSE DirLoop(truncate(st.val, ZipCount(st.val, Head(rest), 1)), Tail(rest))

ends_with(chars, c) == chars # <<>> /\ chars[Len(chars)] = c

\* The value returned: <<>> is None and <<p>> is Some(p); ok = FALSE is a panic.
check_same_directory(files) ==
    LET st == IF files = <<>> THEN [ok |-> TRUE, val |-> <<>>]
              ELSE DirLoop([ok |-> TRUE, val |-> Append(Head(files), "/")], Tail(files))
    IN  IF ~st.ok THEN [ok |-> FALSE, val |-> <<>>]
        ELSE IF st.val = <<>> \/ ~ends_with(st.val, "/")
        THEN [ok |-> TRUE, val |-> <<>>]
        ELSE [ok |-> TRUE, val |-> <<st.val>>]

\* The names a listing can hold: up to MaxFiles names of up to MaxNameLen
\* characters, and the lists of test_check_same_prefix.
MaxFiles == 3
MaxNameLen == 2
NameChars == {"a", "b", "/", "U+00E9"}

Names == UNION {[1..n -> NameChars] : n \in 0..MaxNameLen}

\* Two files in a directory below the top one.
DeepFileList == <<(<<"a", "/", "b", "/", "c">>), <<"a", "/", "b", "/", "d">>>>

TestFileLists ==
    {<<<<"t", "e", "s", "t", "/", "0", "3", "-", "e", "_", "0", "3", ".", "p", "n", "g">>, <<"t", "e", "s", "t", "/", "0", "1", "-", "e", "_", "0", "1", ".", "p", "n", "g">>>>,
     <<<<"0", "3", "-", "e", "_", "0", "3", ".", "p", "n", "g">>, <<"0", "1", "-", "e", "_", "0", "1", ".", "p", "n", "g">>>>,
     <<<<"t", "e", "s", "t">>, <<"t", "e", "s", "t", "/", "0", "1", "-", "e", "_", "0", "1", ".", "p", "n", "g">>>>,
     <<<<"t", "e", "s", "t", "2", "/", "0", "1", "-", "e", "_", "0", "1", ".", "p", "n", "g">>, <<"t", "e", "s", "t", "/", "0", "1", "-", "e", "_", "0", "1", ".", "p", "n", "g">>>>,
     <<<<"t", "e", "s", "t">>, <<"t", "e", "s", "t", "2">>>>}

FileLists ==
    TestFileLists \cup {DeepFileList}
    \cup UNION {[1..n -> Names] : n \in 0..MaxFiles}

InitDir ==
    /\ ReaderIdle /\ InitZ7 /\ DocIdle
    /\ fnArg \in FileLists
    /\ fnRes = <<>>

\* executing_cmd: check_same_directory(&doc.files())
CallCheckSameDirectory ==
    /\ fnRes = <<>>
    /\ fnRes' = <<check_same_directory(fnArg)>>
    /\ UNCHANGED <<fnArg, rvars, zvars, dvars>>

SpecDir == InitDir /\ [][CallCheckSameDirectory]_vars

(***************************************************************************)
(* The Document (output_format.rs).  Its text is kept as sequences of      *)
(* characters.  Lit holds the string literals of output_format.rs and of   *)
(* the lines z7.rs composes, each under the name of what it spells; the   *)
(* grave accent of the title is written "U+0060".                          *)
(***************************************************************************)
Lit ==
    [
     EnterPassword |->
       <<"E", "n", "t", "e", "r", " ", "p", "a", "s", "s", "w", "o", "r",
         "d">>,
     InputPasssword |->
       <<"I", "n", "p", "u", "t", " ", "p", "a", "s", "s", "s", "w", "o",
         "r", "d">>,
     InputPassword |->
       <<"I", "n", "p", "u", "t", " ", "p", "a", "s", "s", "w", "o", "r",
         "d">>,
     InputPasswordColon |->
       <<"I", "n", "p", "u", "t", " ", "p", "a", "s", "s", "w", "o", "r",
         "d", ":", " ">>,
     HistoryFile |->
       <<"P", "a", "s", "s", "w", "o", "r", "d", " ", "h", "i", "s", "t",
         "o", "r", "y", " ", "f", "i", "l", "e", ":", " ">>,
     SavePassword |->
       <<"S", "a", "v", "e", " ", "p", "a", "s", "s", "w", "o", "r", "d">>,
     SavePasswordColon |->
       <<"S", "a", "v", "e", " ", "p", "a", "s", "s", "w", "o", "r", "d",
         ":", " ">>,
     EnterPasswordColon |->
       <<"E", "n", "t", "e", "r", " ", "p", "a", "s", "s", "w", "o", "r",
         "d", ":", " ">>,
     SelectPassword |->
       <<"s", "e", "l", "e", "c", "t", " ", "p", "a", "s", "s", "w", "o",
         "r", "d", " ", "u", "s", "e", " ", "[", "C", "t", "r", "l", "+",
         "x", "]", ":", " ">>,
     Bar |->
       <<" ", "|", " ">>,
     Rule |->
       <<"-", "-", "-", "-", "-">>,
     Attr |->
       <<"A", "t", "t", "r">>,
     SetExtractPath |->
       <<"S", "e", "t", " ", "e", "x", "t", "r", "a", "c", "t", "_", "p",
         "a", "t", "h", ":">>,
     Type |->
       <<"T", "y", "p", "e", " ", "=", " ">>,
     Method |->
       <<"M", "e", "t", "h", "o", "d", " ", "=", " ">>,
     Error |->
       <<"E", "R", "R", "O", "R", ":">>,
     ListingArchive |->
       <<"L", "i", "s", "t", "i", "n", "g", " ", "a", "r", "c", "h", "i",
         "v", "e", ":">>,
     FileComma |->
       <<"f", "i", "l", "e", ",">>,
     ExtractingArchive |->
       <<"E", "x", "t", "r", "a", "c", "t", "i", "n", "g", " ", "a", "r",
         "c", "h", "i", "v", "e", ":">>,
     Everything |->
       <<"E", "v", "e", "r", "y", "t", "h", "i", "n", "g">>,
     ExtractTo |->
       <<"E", "x", "t", "r", "a", "c", "t", " ", "t", "o", ":", " ">>,
     ExtractFile |->
       <<"E", "x", "t", "r", "a", "c", "t", " ", "f", "i", "l", "e", ":",
         " ">>,
     Title |->
       <<"7", "Z", "-", "V", "U", "I", ",", " ", "S", "h", "o", "r", "t",
         "c", "u", "t", "s", ":", " ", "U+0060", "s", "p", "a", "c", "e", "+",
         "c", "U+0060", ":", " ", "e", "x", "e", "c", "u", "t", "e", " ", "e",
         "x", "t", "r", "a", "c", "t", "|", "a", "d", "d", ";", " ", "U+0060",
         "s", "p", "a", "c", "e", "+", "q", "U+0060", ":", " ", "Q", "u", "i",
         "t", " ", "t", "h", "i", "s", " ", "p", "r", "o", "g", "r", "a",
         "m", ";", " ", "U+0060", "s", "p", "a", "c", "e", "+", "r", "U+0060", ":",
         " ", "R", "e", "t", "r", "y">>
    ]

\* The characters of the strings the orchestrator handles as whole values.
Chars(s) ==
    CASE s = "dir" -> <<"d", "i", "r">>
      [] s = "arc" -> <<"a", "r", "c">>
      [] s = "out" -> <<"o", "u", "t">>
      [] s = "p1" -> <<"p", "1">>
      [] s = "p2" -> <<"p", "2">>
      [] s = "dir/arc.7z" -> <<"d", "i", "r", "/", "a", "r", "c", ".", "7", "z">>

\* str::contains, str::trim_start_matches and str::trim.
contains(s, p) == \E i \in 0..(Len(s) - Len(p)) : SubSeq(s, i + 1, i + Len(p)) = p

RECURSIVE trim_start_matches(_, _)
trim_start_matches(s, p) ==
    IF p # <<>> /\ starts_with(s, p)
    THEN trim_start_matches(SubSeq(s, Len(p) + 1, Len(s)), p)
    ELSE s

RECURSIVE trim(_)
trim(s) ==
    IF s # <<>> /\ s[1] = " " THEN trim(Tail(s))
    ELSE IF s # <<>> /\ s[Len(s)] = " " THEN trim(SubSeq(s, 1, Len(s) - 1))
    ELSE s

\* [String]::join(sep)
RECURSIVE join(_, _)
join(strs, sep) ==
    IF strs = <<>> THEN <<>>
    ELSE IF Len(strs) = 1 THEN strs[1]
    ELSE strs[1] \o sep \o join(Tail(strs), sep)

\* PathBuf::to_str of a path kept as the sequence of its components.
to_str(path) == join([k \in DOMAIN path |-> Chars(path[k])], <<"/">>)

\* Vec<String>::sort followed by dedup: the distinct strings in the order of
\* their bytes.  Passwords are spelt with the characters "1", "2" and "p".
sort_dedup(strs) ==
    LET CharCode(c) == CASE c = "1" -> 49 [] c = "2" -> 50 [] c = "p" -> 112
        RECURSIVE StrLess(_, _)
        StrLess(a, b) ==
            IF b = <<>> THEN FALSE
            ELSE IF a = <<>> THEN TRUE
            ELSE IF a[1] = b[1] THEN StrLess(Tail(a), Tail(b))
            ELSE CharCode(a[1]) < CharCode(b[1])
        RECURSIVE SortSet(_)
        SortSet(S) ==
            IF S = {} THEN <<>>
            ELSE LET least == CHOOSE x \in S : \A y \in S \ {x} : StrLess(x, y)
                 IN  <<least>> \o SortSet(S \ {least})
    IN  SortSet({strs[k] : k \in DOMAIN strs})

\* Vec::dedup: consecutive equal elements collapse into the first.
RECURSIVE dedup(_)
dedup(v) ==
    IF Len(v) < 2 THEN v
    ELSE IF v[1] = v[2] THEN dedup(Tail(v))
    ELSE <<v[1]>> \o dedup(Tail(v))

(***************************************************************************)
(* The line builders.  One record shape serves them all: text is the       *)
(* String `inner` of TitleLB, PropertyLB, CaptureLB and ErrorLB, lines and *)
(* history are PasswordLB's inner and password_history.  An input returns  *)
(* the builder after the call, whether it claimed the line, and ok = FALSE *)
(* when the call panics.                                                   *)
(***************************************************************************)
NewLB(kind, expression) ==
    [kind |-> kind, text |-> <<>>, done |-> FALSE, expression |-> expression,
     lines |-> <<>>, history |-> <<>>]

Fed(ok, claimed, lb) == [ok |-> ok, claimed |-> claimed, lb |-> lb]

\* PasswordLB::input.  hist is what fs::read_to_string gives: <<>> for Err,
\* <<h>> for a file holding the entries h; wrote is whether fs::write succeeds.
PasswordLB_input(lb, s, hist, wrote) ==
    LET inner == IF (starts_with(s, Lit.EnterPassword)
                     \/ starts_with(s, Lit.InputPasssword)) /\ lb.lines = <<>>
                 THEN <<<<>>>>
                 ELSE lb.lines
        lb1 == [lb EXCEPT !.lines = inner]
    IN  IF starts_with(s, Lit.HistoryFile)
        THEN IF hist # <<>>
             THEN LET kept == IF Len(inner) > 1
                              THEN SubSeq(inner, 1, Len(inner) - 1)
                              ELSE inner
                      shown == Lit.SelectPassword \o join(hist[1], Lit.Bar)
                  IN  Fed(TRUE, TRUE, [lb EXCEPT !.history = hist[1],
                                                 !.lines = Append(kept, shown)])
             ELSE Fed(TRUE, TRUE, lb1)
        ELSE IF starts_with(s, Lit.EnterPassword)
        THEN Fed(TRUE, TRUE, [lb EXCEPT !.lines = [inner EXCEPT ![1] = Lit.EnterPasswordColon]])
        ELSE IF starts_with(s, Lit.InputPassword)
        THEN IF inner = <<>>
             THEN Fed(FALSE, FALSE, lb)
             ELSE Fed(TRUE, TRUE,
                      [lb EXCEPT !.lines =
                          [inner EXCEPT ![1] =
                              Lit.EnterPasswordColon
                              \o trim_start_matches(s, Lit.InputPasswordColon)]])
        ELSE IF starts_with(s, Lit.SavePassword) /\ Len(inner) >= 2
        THEN Fed(wrote, TRUE,
                 [lb1 EXCEPT !.history =
                     sort_dedup(Append(lb.history,
                                       trim_start_matches(s, Lit.SavePasswordColon)))])
        ELSE Fed(TRUE, FALSE, lb1)

\* LineBuilder::input of the other builders: the trait's default for TitleLB
\* and EmptyLB, and those of PropertyLB, CaptureLB and ErrorLB.
LB_input(lb, s, hist, wrote) ==
    CASE lb.kind = "Password" -> PasswordLB_input(lb, s, hist, wrote)
      [] lb.kind = "Property" ->
            IF lb.done THEN Fed(TRUE, FALSE, lb)
            ELSE IF starts_with(s, Lit.Type)
            THEN Fed(TRUE, TRUE, [lb EXCEPT !.text = @ \o s])
            ELSE IF starts_with(s, Lit.Method)
            THEN Fed(TRUE, TRUE, [lb EXCEPT !.text = @ \o <<"\t">> \o s, !.done = TRUE])
            ELSE Fed(TRUE, FALSE, lb)
      [] lb.kind = "Capture" ->
            IF lb.done THEN Fed(TRUE, FALSE, lb)
            ELSE IF contains(s, lb.expression)
            THEN Fed(TRUE, TRUE, [lb EXCEPT !.text = @ \o s, !.done = TRUE])
            ELSE Fed(TRUE, FALSE, lb)
      [] lb.kind = "Error" ->
            IF starts_with(s, Lit.Error)
            THEN Fed(TRUE, TRUE, [lb EXCEPT !.text = @ \o s])
            ELSE Fed(TRUE, FALSE, lb)
      [] OTHER -> Fed(TRUE, FALSE, lb)

\* LineBuilder::output
LB_output(lb) ==
    CASE lb.kind = "Title" -> <<Lit.Title>>
      [] lb.kind = "Empty" -> <<<<>>>>
      [] lb.kind = "Password" -> lb.lines
      [] OTHER -> <<lb.text>>

\* FileLine::from((str, tem)): the two slices panic when tem[4].start is
\* beyond the row (tem[k] of the model is tem[k-1] of the code).
FileLine_from(s, tem) ==
    IF tem[1].start <= tem[5].start /\ tem[5].start <= Len(s)
    THEN [ok |-> TRUE,
          raw |-> SubSeq(s, tem[1].start + 1, tem[5].start),
          filename |-> SubSeq(s, tem[5].start + 1, Len(s))]
    ELSE [ok |-> FALSE, raw |-> <<>>, filename |-> <<>>]

\* A FileListLB::input for which a rule after a complete table starts the
\* capture again, used to show that a table is captured once.
FileListLB_inputAgain(fl, s) ==
    IF starts_with(s, Lit.Rule)
    THEN IF fl.begin_line = <<>>
         THEN LET parsed == parse_dash_line_to_range(s)
              IN  Fed(parsed.ok, TRUE,
                      [fl EXCEPT !.template = <<parsed.ra>>, !.begin_line = <<s>>,
                                 !.capture = TRUE])
         ELSE IF ~fl.capture /\ fl.end_line # <<>>
         THEN Fed(TRUE, TRUE, [fl EXCEPT !.end_line = <<>>, !.capture = TRUE])
         ELSE Fed(TRUE, TRUE, [fl EXCEPT !.end_line = <<s>>])
    ELSE IF fl.capture
    THEN IF fl.end_line # <<>>
         THEN Fed(TRUE, TRUE, [fl EXCEPT !.capture = FALSE, !.summary_line = s])
         ELSE IF s = <<>>
         THEN Fed(TRUE, TRUE, fl)
         ELSE LET f == FileLine_from(s, fl.template[1])
              IN  Fed(f.ok, TRUE,
                      [fl EXCEPT !.inner =
                          Append(@, [filename |-> f.filename, raw |-> f.raw])])
    ELSE IF contains(s, Lit.Attr)
    THEN Fed(TRUE, TRUE, [fl EXCEPT !.header_line = <<s>>])
    ELSE IF starts_with(s, Lit.SetExtractPath)
    THEN Fed(TRUE, TRUE,
             [fl EXCEPT !.extract_path = trim(trim_start_matches(s, Lit.SetExtractPath))])
    ELSE Fed(TRUE, FALSE, fl)

\* FileListLB::input
FileListLB_input(fl, s) ==
    IF starts_with(s, Lit.Rule)
    THEN IF fl.begin_line = <<>>
         THEN LET parsed == parse_dash_line_to_range(s)
              IN  Fed(parsed.ok, TRUE,
                      [fl EXCEPT !.template = <<parsed.ra>>, !.begin_line = <<s>>,
                                 !.capture = TRUE])
         ELSE Fed(TRUE, TRUE, [fl EXCEPT !.end_line = <<s>>])
    ELSE IF fl.capture
    THEN IF fl.end_line # <<>>
         THEN Fed(TRUE, TRUE, [fl EXCEPT !.capture = FALSE, !.summary_line = s])
         ELSE IF s = <<>>
         THEN Fed(TRUE, TRUE, fl)
         ELSE LET f == FileLine_from(s, fl.template[1])
              IN  Fed(f.ok, TRUE,
                      [fl EXCEPT !.inner =
                          Append(@, [filename |-> f.filename, raw |-> f.raw])])
    ELSE IF contains(s, Lit.Attr)
    THEN Fed(TRUE, TRUE, [fl EXCEPT !.header_line = <<s>>])
    ELSE IF starts_with(s, Lit.SetExtractPath)
    THEN Fed(TRUE, TRUE,
             [fl EXCEPT !.extract_path = trim(trim_start_matches(s, Lit.SetExtractPath))])
    ELSE Fed(TRUE, FALSE, fl)

\* A FileListLB::output whose rows leave the extract path out, used to show
\* that the path in FileLine::to_string matters.
FileListLB_outputNoPath(fl) ==
    fl.header_line \o fl.begin_line
    \o [k \in DOMAIN fl.inner |-> fl.inner[k].raw \o fl.inner[k].filename]
    \o (IF fl.end_line = <<>> THEN <<>> ELSE <<fl.end_line[1], fl.summary_line>>)

\* FileListLB::output, with FileLine::to_string for each row.
FileListLB_output(fl) ==
    fl.header_line \o fl.begin_line
    \o [k \in DOMAIN fl.inner |->
            fl.inner[k].raw \o fl.extract_path \o fl.inner[k].filename]
    \o (IF fl.end_line = <<>> THEN <<>> ELSE <<fl.end_line[1], fl.summary_line>>)

\* FileListLB::files, reached through Document::files.
files(d) == [k \in DOMAIN d.file_list_lb.inner |-> d.file_list_lb.inner[k].filename]

(***************************************************************************)
(* Lines and Document.  A Document is its one field lbs.                   *)
(***************************************************************************)
\* Lines::new_list() and Lines::new_extract(): the builders in priority order.
Lines_new(c) ==
    IF c = "List"
    THEN <<NewLB("Title", <<>>), NewLB("Empty", <<>>),
           NewLB("Capture", Lit.ListingArchive), NewLB("Capture", Lit.FileComma),
           NewLB("Empty", <<>>), NewLB("Password", <<>>), NewLB("Empty", <<>>),
           NewLB("Property", <<>>), NewLB("Empty", <<>>), NewLB("Error", <<>>),
           NewLB("Empty", <<>>)>>
    ELSE <<NewLB("Title", <<>>), NewLB("Empty", <<>>),
           NewLB("Capture", Lit.ExtractingArchive), NewLB("Capture", Lit.FileComma),
           NewLB("Empty", <<>>), NewLB("Password", <<>>), NewLB("Empty", <<>>),
           NewLB("Property", <<>>), NewLB("Empty", <<>>),
           NewLB("Capture", Lit.Everything), NewLB("Error", <<>>),
           NewLB("Empty", <<>>)>>

\* A layout that takes the FileListLB of the new Lines as well, used to show
\* that carrying the old one over matters.
layoutFresh(d, c) == [inner |-> Lines_new(c), file_list_lb |-> FileListLB_default]

\* Document::layout_list and Document::layout_extract: new builders, the
\* FileListLB carried over.
layout(d, c) == [inner |-> Lines_new(c), file_list_lb |-> d.file_list_lb]

\* Document::input, which is Lines::input: the Document after the call, and
\* ok = FALSE when the call panics.  OfferFrom is the loop over inner, from
\* the k-th builder on.
input(d, s, hist, wrote) ==
    LET RECURSIVE OfferFrom(_, _)
        OfferFrom(inner, k) ==
            IF k > Len(inner) THEN [ok |-> TRUE, inner |-> inner]
            ELSE LET r == LB_input(inner[k], s, hist, wrote)
                     next == [inner EXCEPT ![k] = r.lb]
                 IN  IF ~r.ok THEN [ok |-> FALSE, inner |-> inner]
                     ELSE IF r.claimed THEN [ok |-> TRUE, inner |-> next]
                     ELSE OfferFrom(next, k + 1)
        f == FileListLB_input(d.file_list_lb, s)
    IN  IF ~f.ok THEN [ok |-> FALSE, doc |-> d]
        ELSE IF f.claimed THEN [ok |-> TRUE, doc |-> [d EXCEPT !.file_list_lb = f.lb]]
        ELSE LET r == OfferFrom(d.inner, 1)
             IN  [ok |-> r.ok, doc |-> [d EXCEPT !.inner = r.inner]]

\* Lines::lines
lines(d) ==
    LET RECURSIVE FlatOutputs(_)
        FlatOutputs(inner) ==
            IF inner = <<>> THEN <<>>
            ELSE LB_output(Head(inner)) \o FlatOutputs(Tail(inner))
    IN  FlatOutputs(d.inner) \o FileListLB_output(d.file_list_lb)

\* Document::output without its dedup, used to show that the dedup matters.
outputNoDedup(d) == lines(d)

\* Document::output
output(d) == dedup(lines(d))

(***************************************************************************)
(* The Document as the tasks of Z7 use it (checked under SpecDoc).  Every  *)
(* action is one stretch of z7.rs that holds the Document's lock, with the *)
(* fields of Z7 it reads or writes; the child, its pipes and the queues    *)
(* between the tasks are those of Spec and take no step here.  A panic of  *)
(* the task that holds the lock ends the join.                             *)
(***************************************************************************)
MaxCalls == 4      \* times the Document is locked in one run of the program

\* The lines the child prints, as read_output delivers them: among them the
\* rule under the header of a listing and rows laid out under it.
RawLines ==
    LET DashRule == DashLine(<<5, 1, 1, 1, 1>>, <<1, 1, 1, 1>>, 0)
        RowOf(name) == Rep("x", 5) \o <<" ", "x", " ", "x", " ", "x", " ">> \o name
    IN  {Lit.EnterPassword \o <<":">>, Lit.InputPasssword, DashRule,
         RowOf(<<"a">>), RowOf(<<"d", "/", "a">>), <<"x">>, <<>>,
         Lit.Type \o <<"7">>, Lit.Method \o <<"L">>, Lit.Error \o <<"x">>,
         Lit.ListingArchive, Lit.FileComma, Lit.Everything, Lit.Attr}

\* What fs::read_to_string gives for the password history file.
HistoryReads ==
    {<<>>, <<<<>>>>} \cup {<<<<Chars(p)>>>> : p \in HistoryPasswords}

\* What no action of SpecDoc changes.
DocFrame == <<rvars, selected_password, stdin_pipe, operQueue, cmdQueue, optQueue,
              pcOp, should_retry, cmdPassword, cmdExtractTo, line, taken,
              ChildVars, writes>>

CanLock == alive /\ ~DocLocked /\ calls < MaxCalls

\* The lock is released with the Document r.doc, or the holder panicked.
Locking(r) == doc' = r.doc /\ alive' = r.ok /\ calls' = calls + 1

\* executing_cmd before the child is spawned: the status, the layout.
DocLayoutUpTo(c, n) ==
    /\ alive /\ ~DocLocked /\ calls < n /\ pcCmd = "recv"
    /\ cmd' = c /\ pcCmd' = "wait"
    /\ execute_status' = Pedding
    /\ LET d0 == layout(doc, c)
           r1 == input(d0, Lit.ExtractFile \o Chars(File), <<>>, TRUE)
           r2 == input(r1.doc, Lit.ExtractTo \o to_str(extract_to_path), <<>>, TRUE)
       IN  Locking(IF c # "List" THEN [ok |-> TRUE, doc |-> d0]
                   ELSE IF r1.ok THEN r2 ELSE r1)
    /\ UNCHANGED <<password, extract_to_path, docQueue, pcRead, oper, opsSent, fvars>>
    /\ UNCHANGED DocFrame

DocLayout(c) == DocLayoutUpTo(c, MaxCalls)

\* read_document: doc.input(line) for a line of the child.
DocLineUpTo(l, n) ==
    /\ alive /\ ~DocLocked /\ calls < n /\ pcRead = "recv"
    /\ Locking(input(doc, l, <<>>, TRUE))
    /\ pcRead' = IF starts_with(l, Lit.EnterPassword) THEN "history" ELSE "recv"
    /\ UNCHANGED <<password, execute_status, extract_to_path, docQueue, pcCmd, cmd,
                   oper, opsSent, fvars>>
    /\ UNCHANGED DocFrame

DocLine(l) == DocLineUpTo(l, MaxCalls)

\* read_document after a prompt: the line naming the password history file.
DocHistory ==
    /\ CanLock /\ pcRead = "history"
    /\ \E hist \in HistoryReads :
         Locking(input(doc, Lit.HistoryFile \o <<"h">>, hist, TRUE))
    /\ pcRead' = "recv"
    /\ UNCHANGED <<password, execute_status, extract_to_path, docQueue, pcCmd, cmd,
                   oper, opsSent, fvars>>
    /\ UNCHANGED DocFrame

\* read_document: doc.output() under the read lock; fnArg keeps the Document
\* it was called on and fnRes what it returned.
DocOutput ==
    /\ CanLock
    /\ fnArg' = <<doc>>
    /\ fnRes' = <<output(doc)>>
    /\ calls' = calls + 1
    /\ UNCHANGED <<doc, alive>>
    /\ UNCHANGED <<password, execute_status, extract_to_path, docQueue, pcCmd, cmd,
                   pcRead, oper, opsSent>>
    /\ UNCHANGED DocFrame

\* write_password: password.as_ref().unwrap() == &new_password
SamePasswordNever(stored, pwd) == FALSE

SamePassword(stored, pwd) == stored = <<pwd>>

\* write_password after the write to the child: the stored password, then the
\* Document.
DocPassword(pwd) ==
    /\ CanLock /\ opsSent < MaxOps
    /\ opsSent' = opsSent + 1
    /\ oper' = Op("Password", pwd)
    /\ IF SamePassword(password, pwd)
       THEN UNCHANGED <<password, doc, alive, calls>>
       ELSE /\ password' = <<pwd>>
            /\ Locking(input(doc, Lit.InputPasswordColon \o Chars(pwd), <<>>, TRUE))
    /\ UNCHANGED <<execute_status, extract_to_path, docQueue, pcCmd, cmd, pcRead, fvars>>
    /\ UNCHANGED DocFrame

\* set_extract_to_path
DocExtractTo(path) ==
    /\ CanLock /\ ~ExtractLocked /\ opsSent < MaxOps
    /\ opsSent' = opsSent + 1
    /\ oper' = Op("ExtractTo", path)
    /\ extract_to_path' = <<path>>
    /\ Locking(input(doc, Lit.ExtractTo \o to_str(<<path>>), <<>>, TRUE))
    /\ UNCHANGED <<password, execute_status, docQueue, pcCmd, cmd, pcRead, fvars>>
    /\ UNCHANGED DocFrame

\* executing_cmd once the child has exited, up to the send of Pushment::Line,
\* which CmdSendLine makes.
DocFinishUpTo(n) ==
    /\ alive /\ pcCmd = "wait" /\ calls < n
    /\ cmd' = ""
    /\ \E exit_status \in {0} \cup FailCodes, wrote \in BOOLEAN :
         IF success(exit_status)
         THEN /\ execute_status' = StatusNone
              /\ UNCHANGED password
              /\ LET r1 == IF password # <<>>
                           THEN input(doc, Lit.SavePasswordColon \o Chars(password[1]),
                                      <<>>, wrote)
                           ELSE [ok |-> TRUE, doc |-> doc]
                     same == check_same_directory(files(r1.doc))
                     pushed == Append(extract_to_path, FileStem)
                 IN  IF ~r1.ok
                     THEN Locking(r1) /\ pcCmd' = "recv" /\ UNCHANGED extract_to_path
                     ELSE IF cmd = "List" /\ ~same.ok
                     THEN /\ Locking([ok |-> FALSE, doc |-> r1.doc])
                          /\ pcCmd' = "recv" /\ UNCHANGED extract_to_path
                     ELSE IF cmd = "List" /\ same.val = <<>>
                     THEN /\ extract_to_path' = pushed
                          /\ Locking(input(r1.doc, Lit.ExtractTo \o to_str(pushed),
                                           <<>>, TRUE))
                          /\ pcCmd' = "sendLine"
                     ELSE Locking(r1) /\ pcCmd' = "recv" /\ UNCHANGED extract_to_path
         ELSE /\ password' = PasswordAfterFailure
              /\ execute_status' = FailedStatus(cmd, exit_status)
              /\ pcCmd' = "recv"
              /\ UNCHANGED <<extract_to_path, doc, alive, calls>>
    /\ UNCHANGED <<docQueue, pcRead, oper, opsSent, fvars>>
    /\ UNCHANGED DocFrame

DocFinish == DocFinishUpTo(MaxCalls)

NextDoc ==
    \/ \E c \in {"List", "Extract"} : DocLayout(c)
    \/ \E l \in RawLines : DocLine(l)
    \/ DocHistory
    \/ DocOutput
    \/ \E pwd \in TypedPasswords \cup HistoryPasswords : DocPassword(pwd)
    \/ \E path \in Dirs : DocExtractTo(path)
    \/ DocFinish
    \/ CmdSendLine
    \/ DisplayRecv

SpecDoc == Init /\ [][NextDoc]_vars

(***************************************************************************)
(* Runs that list or extract the same archive again (checked under         *)
(* SpecRelist): the steps of SpecDoc that start a command, apply a line of *)
(* the table and end the command, over more lockings of the Document.      *)
(***************************************************************************)
MaxRelistCalls == 8  \* times the Document is locked in one such run

SpecRelist ==
    Init /\ [][\/ \E c \in {"List", "Extract"} : DocLayoutUpTo(c, MaxRelistCalls)
               \/ \E l \in {t \in RawLines : starts_with(t, Lit.Rule)
                                            \/ starts_with(t, <<"x", "x">>)} :
                     DocLineUpTo(l, MaxRelistCalls)
               \/ DocFinishUpTo(MaxRelistCalls)
               \/ CmdSendLine
               \/ DisplayRecv]_vars

(***************************************************************************)
(* The FileListLB on its own (checked under SpecList), fed line by line    *)
(* and rendered as test_file_list_lb does: doc.file_list_lb is the         *)
(* builder, fnArg the line fed last and fnRes what output() returns after  *)
(* it.  A panic of the input ends the run.                                 *)
(***************************************************************************)
MaxListCalls == 6  \* lines fed to the builder in one run

\* The lines fed: the header, a rule with a gap of two before the fifth
\* column, rows laid out under it, and lines that set the extract path.
ListLines ==
    LET GapRule == DashLine(<<5, 1, 1, 1, 1>>, <<1, 1, 1, 2>>, 0)
        GapRow(name) == Rep("x", 5) \o <<" ", "x", " ", "x", " ", "x", " ", " ">> \o name
    IN  {Lit.Attr, GapRule, GapRow(<<"a">>), GapRow(<<"d", "/", "a">>),
         Lit.SetExtractPath \o <<" ", "d", "/">>, Lit.SetExtractPath}

\* flb.input(l), then lb.output()
ListInput(l) ==
    /\ alive /\ calls < MaxListCalls
    /\ LET r == FileListLB_input(doc.file_list_lb, l)
       IN  /\ alive' = r.ok
           /\ doc' = IF r.ok THEN [doc EXCEPT !.file_list_lb = r.lb] ELSE doc
           /\ fnRes' = IF r.ok THEN <<FileListLB_output(r.lb)>> ELSE <<>>
    /\ fnArg' = <<l>>
    /\ calls' = calls + 1
    /\ UNCHANGED <<password, selected_password, stdin_pipe, execute_status,
                   extract_to_path, operQueue, cmdQueue, optQueue, docQueue, opsSent,
                   writes>>
    /\ UNCHANGED <<OpVars, CmdVars, ReadVars, ChildVars, rvars>>

SpecList == Init /\ [][\E l \in ListLines : ListInput(l)]_vars

(***************************************************************************)
(* Claims about the stream reader (checked under SpecReader).              *)
(***************************************************************************)
\* The line events of one source, in the order they were sent.
EventsOf(from) == SelectSeq(sent, LAMBDA e : e.some /\ e.fd = from)

LineEvents == SelectSeq(sent, LAMBDA e : e.some)

EndSignals == SelectSeq(sent, LAMBDA e : ~e.some)

TextsOf(from) == [i \in 1..Len(EventsOf(from)) |-> EventsOf(from)[i].text]

IsPrefix(p, s) == Len(p) <= Len(s) /\ SubSeq(s, 1, Len(p)) = p

\* The lines the bytes of one source make on their own: cut at every line
\* feed and after a prompt's colon, backspaces dropped, an unterminated rest
\* left out.
RECURSIVE FlushedLines(_, _)
FlushedLines(bytes, acc) ==
    IF bytes = <<>> THEN <<>>
    ELSE LET c == Head(bytes)
         IN  IF c = LF THEN <<acc>> \o FlushedLines(Tail(bytes), <<>>)
             ELSE IF c = BS THEN FlushedLines(Tail(bytes), acc)
             ELSE IF c = COLON /\ starts_with(acc, EnterPassword)
             THEN <<Append(acc, c)>> \o FlushedLines(Tail(bytes), <<>>)
             ELSE FlushedLines(Tail(bytes), Append(acc, c))

\* The end signal is sent exactly once, as the last value, when the loop ends.
EndSignalLast ==
    /\ Len(EndSignals) = (IF rdone THEN 1 ELSE 0)
    /\ rdone => (sent[Len(sent)] = None /\ eof[1] /\ eof[2])

\* C1: with stdout "a\n" and stderr "b\n", once the reader has ended the
\* values sent are exactly the line events ("a", stdout) and ("b", stderr), in
\* either order, and no other line event, followed by one end signal.
C1_ExactlyAB ==
    (rdone /\ given = <<(<<ByteA, LF>>), (<<ByteB, LF>>)>>) =>
        /\ LineEvents \in {<<Some(<<ByteA>>, 1), Some(<<ByteB>>, 2)>>,
                           <<Some(<<ByteB>>, 2), Some(<<ByteA>>, 1)>>}
        /\ EndSignalLast

\* C2: a source that ends before delivering any byte contributes no line
\* event, and the end signal is sent exactly once, after both sources have
\* ended, with no line event after it.
C2_EmptySourceNoLine ==
    /\ \A from \in 1..2 : given[from] = <<>> => EventsOf(from) = <<>>
    /\ EndSignalLast

\* C3: a source whose eof flag is set is never polled again, and when the
\* reader has ended every line a source delivered has been sent, in order.
C3_DrainsOther ==
    /\ ~polledEof
    /\ rdone => \A from \in 1..2 :
           IsPrefix(FlushedLines(given[from], <<>>), TextsOf(from))

\* stderr ended first without a byte; stdout's line "a" was sent after that.
C3_Witness ==
    /\ eof[2] /\ ~eof[1]
    /\ given = <<(<<ByteA, LF>>), <<>>>>
    /\ sent = <<Some(<<>>, 2), Some(<<ByteA>>, 1)>>

\* The step reads the byte c from source `from`.
ReadsByte(from, c) ==
    /\ Source(from) # <<>>
    /\ Head(Source(from)) = c
    /\ IF from = 1 THEN stdout' = Tail(stdout) ELSE stderr' = Tail(stderr)

\* C4: a colon read while the accumulator starts with "Enter password" sends
\* the accumulator with the colon at once and clears it; a colon read while it
\* does not sends nothing and stays in the accumulator.
C4_PromptColonFlush ==
    [][\A from \in 1..2 : ReadsByte(from, COLON) =>
          IF starts_with(str[from], EnterPassword)
          THEN /\ sent' = Append(sent, Some(Append(str[from], COLON), from))
               /\ str'[from] = <<>>
          ELSE /\ sent' = sent
               /\ str'[from] = Append(str[from], COLON)]_vars

\* The prompt was sent on stdout with no line feed read and stdout still open,
\* while stderr keeps a colon in its accumulator.
C4_Witness ==
    /\ given = <<EnterPassword \o <<COLON>>, <<ByteB, COLON>>>>
    /\ sent = <<Some(EnterPassword \o <<COLON>>, 1)>>
    /\ ~eof[1] /\ ~eof[2]
    /\ str = <<<<>>, <<ByteB, COLON>>>>

(***************************************************************************)
(* Claims about the orchestrator (checked under Spec and SpecDeep).        *)
(***************************************************************************)
\* The command loop is between writing Pedding and recording the outcome.
CmdInFlight ==
    pcCmd \in {"password", "extractPath", "spawn", "stdin", "read", "eof", "wait"}

\* The command loop is between dequeuing a Cmd and recording its outcome.
CmdDequeued == pcCmd = "pending" \/ CmdInFlight

\* A change of execute_status is one of the status machine's moves.
StatusMove ==
    \/ pcCmd = "pending" /\ execute_status' = Pedding
    \/ /\ execute_status = Pedding /\ pcCmd = "wait"
       /\ \/ execute_status' = StatusNone
          \/ \E code \in FailCodes : execute_status' = Status(cmd, code)

\* C5 (as stated): while the program runs, execute_status is Pedding exactly
\* when the command loop is between dequeuing a Cmd and recording its outcome.
C5_PendingIffDequeued == alive => (execute_status = Pedding <=> CmdDequeued)

\* C5 (amended): execute_status changes only to Pedding, in the command loop's
\* step after it dequeued a Cmd, and from Pedding to None, List(code) of a failed
\* List or Extract(code) of a failed Extract; while the program runs it is
\* Pedding exactly from that write to the recording of the outcome, and a child
\* exists only then.
C5_StatusMachine ==
    /\ [](alive => (execute_status = Pedding <=> CmdInFlight))
    /\ [](childState # "none" => execute_status = Pedding)
    /\ [][execute_status' # execute_status => StatusMove]_vars

\* A failed Extract, the second command of the run, has been recorded.
C5_Witness ==
    /\ execute_status = Status("Extract", 2)
    /\ pcCmd = "recv"
    /\ run = 2

\* The intake finishes the Retry arm.
RetryStep == pcOp = "retry" /\ pcOp' = "recv"

\* C6 (as stated): a Retry handled in state List(code) clears the stored
\* password and leaves Cmd::List at the back of the command queue.
C6_RetryRelists ==
    [][(RetryStep /\ execute_status.tag = "List") =>
          /\ password' = <<>>
          /\ cmdQueue' # <<>>
          /\ cmdQueue'[Len(cmdQueue')] = "List"]_vars

\* C6 (amended): Retry clears the stored password and queues Cmd::List only
\* when the command queue has room, leaving a full queue as it is; a run reads
\* the stored password once, after Pedding is written, and a List run is
\* launched without -p exactly when the password it read was empty.
C6_RetryTrySend ==
    /\ [][RetryStep =>
            /\ password' = <<>>
            /\ cmdQueue' = (IF Len(cmdQueue) < QueueCapacity
                            THEN Append(cmdQueue, "List") ELSE cmdQueue)]_vars
    /\ [][(pcCmd = "password" /\ pcCmd' # pcCmd) => cmdPassword' = password]_vars
    /\ [][(pcCmd = "spawn" /\ pcCmd' = "stdin" /\ cmd = "List") =>
            childArgs' = (IF cmdPassword = <<>>
                          THEN <<(<<"l">>), <<File>>>>
                          ELSE <<(<<"l">>), <<File>>, <<"-p", cmdPassword[1]>>>>)]_vars

\* The first List failed without a password written; the one operation sent,
\* a Retry, has queued Cmd::List with no stored password.
C6_Witness ==
    /\ execute_status.tag = "List"
    /\ opsSent = 1 /\ operQueue = <<>> /\ pcOp = "recv"
    /\ cmdQueue = <<"List">>
    /\ password = <<>> /\ selected_password = <<>>
    /\ writes = <<0>>

\* C7: SelectPassword(p) handled while execute_status is not Pedding clears the
\* stored password, queues Cmd::List and stashes p, writing nothing to a
\* child's stdin; handled while it is Pedding it takes the steps of
\* Password(p), queues no command and stashes nothing.
C7_SelectPasswordAsymmetry ==
    /\ [](pcOp \in {"sp_clear", "sp_send", "sp_stash"} => should_retry)
    /\ []((oper.op = "SelectPassword" /\ pcOp \in {"wp_stdin", "wp_password", "wp_doc"})
             => ~should_retry)
    /\ [][(oper.op = "SelectPassword" /\ pcOp' # pcOp) =>
            /\ pcOp = "sp_status" =>
                 /\ pcOp' = (IF execute_status = Pedding THEN "wp_stdin" ELSE "sp_clear")
                 /\ UNCHANGED <<password, selected_password, cmdQueue, stdin_pipe, writes>>
            /\ pcOp = "sp_clear" =>
                 /\ password' = <<>>
                 /\ UNCHANGED <<stdin_pipe, writes, childGot>>
            /\ pcOp = "sp_send" =>
                 /\ cmdQueue' = Append(cmdQueue, "List")
                 /\ UNCHANGED <<stdin_pipe, writes, childGot>>
            /\ pcOp = "sp_stash" =>
                 /\ selected_password' = <<oper.arg>>
                 /\ UNCHANGED <<stdin_pipe, writes, childGot>>
            /\ pcOp = "wp_stdin" =>
                 /\ stdin_pipe # <<>> => writes'[stdin_pipe[1]] = writes[stdin_pipe[1]] + 1
                 /\ UNCHANGED <<cmdQueue, selected_password>>
            /\ pcOp = "wp_password" =>
                 /\ password' = <<oper.arg>>
                 /\ UNCHANGED <<cmdQueue, selected_password>>
            /\ pcOp = "wp_doc" => UNCHANGED <<cmdQueue, selected_password>>]_vars

\* SelectPassword handled while a command is pending: the password has been
\* written to the waiting child, nothing is queued and nothing is stashed.
C7_Witness ==
    /\ oper.op = "SelectPassword" /\ pcOp = "wp_password"
    /\ ~should_retry
    /\ execute_status = Pedding
    /\ childPrompted /\ childGot /\ writes[run] = 1
    /\ cmdQueue = <<>> /\ selected_password = <<>>

\* C8: once the read loop has taken a stashed password at a prompt, the
\* Operation::Password it holds gets submitted under every interleaving: the
\* read loop is never left holding it while no task, child or display can take
\* a step.
C8_StashSubmitted == (alive /\ pcRead = "sendOper") => ENABLED TaskStep

\* C9: a password write takes the handle out of the slot, so that each child's
\* stdin is written at most once; with the slot empty nothing is written; each
\* run installs the handle of its own child, which has not been written.
C9_OneShotStdin ==
    /\ [](\A r \in 1..Len(writes) : writes[r] <= 1)
    /\ [][(pcOp = "wp_stdin" /\ pcOp' # pcOp) =>
            IF stdin_pipe # <<>>
            THEN /\ stdin_pipe' = <<>>
                 /\ writes' = [writes EXCEPT ![stdin_pipe[1]] = @ + 1]
            ELSE UNCHANGED <<stdin_pipe, writes, childGot>>]_vars
    /\ [][(pcCmd = "stdin" /\ pcCmd' # pcCmd) =>
            /\ stdin_pipe' = <<run>>
            /\ writes[run] = 0]_vars

\* The waiting child of the first run got its password by the one write to its
\* stdin, and the slot is empty although the run is not over.
C9_Witness ==
    /\ writes = <<1>>
    /\ stdin_pipe = <<>>
    /\ childPrompted /\ childGot
    /\ childState = "running" /\ execute_status = Pedding

\* C10: while the program runs the stdin slot is empty whenever execute_status
\* is not Pedding, and no password is written to the stdin of a child that has
\* exited.
C10_NoStaleHandle ==
    /\ alive => (execute_status # Pedding => stdin_pipe = <<>>)
    /\ pcOp # "panicked"

\* C11: a password write to the stdin of a child that has exited is not fatal:
\* the intake keeps running and goes on to the rest of write_password.
C11_ClosedStdinNotFatal ==
    [][(pcOp = "wp_stdin" /\ stdin_pipe # <<>> /\ ~ChildRunning(stdin_pipe[1])
          /\ pcOp' # pcOp) =>
       (alive' /\ pcOp' = "wp_password")]_vars

\* The command loop records a failure.
FailureStep == pcCmd = "wait" /\ pcCmd' # pcCmd /\ execute_status'.tag \in {"List", "Extract"}

\* C13 (as stated): when a failure is recorded no command is left to be started
\* without a further Operation.
C13_NothingQueuedAtFailure == [][FailureStep => cmdQueue' = <<>>]_vars

\* C13 (amended): a command that exits with a nonzero code clears the stored
\* password and records List(code) or Extract(code), matching the command; the
\* command loop queues nothing, and a Cmd joins the queue only in the intake's
\* Execute, Retry and SelectPassword arms; a Cmd that one of them queued during
\* the failed run is started next.
C13_NoAutomaticRetry ==
    /\ [][FailureStep =>
            /\ password' = <<>>
            /\ \E code \in FailCodes : execute_status' = Status(cmd, code)
            /\ cmdQueue' = cmdQueue]_vars
    /\ [][Len(cmdQueue') > Len(cmdQueue) =>
            /\ pcOp \in {"execute", "retry", "sp_send"}
            /\ pcOp' # pcOp
            /\ oper.op \in {"Execute", "Retry", "SelectPassword"}]_vars
    /\ [][(pcCmd = "recv" /\ pcCmd' # pcCmd) =>
            (cmdQueue # <<>> /\ cmd' = Head(cmdQueue))]_vars

\* An Extract run that was given a password has failed: the password is gone,
\* Extract(2) is recorded and, nothing being queued, the command loop waits.
C13_Witness ==
    /\ execute_status = Status("Extract", 2)
    /\ password = <<>>
    /\ writes[run] = 1
    /\ cmdQueue = <<>> /\ pcCmd = "recv"
    /\ pcOp = "recv" /\ operQueue = <<>>

(***************************************************************************)
(* Claims about the pure functions (checked under SpecDash and SpecDir).   *)
(***************************************************************************)
\* The 0-based indices at which a run of non-space characters starts.
RunStarts(chars) ==
    {i \in 0..(Len(chars) - 1) :
        chars[i + 1] # " " /\ (i = 0 \/ chars[i] = " ")}

\* The 0-based index just after the run that starts at i.
RunEndOf(chars, i) ==
    CHOOSE j \in (i + 1)..Len(chars) :
        /\ \A m \in i..(j - 1) : chars[m + 1] # " "
        /\ (j = Len(chars) \/ chars[j + 1] = " ")

\* The start of the k-th run.
KthRunStart(chars, k) ==
    CHOOSE i \in RunStarts(chars) :
        Cardinality({j \in RunStarts(chars) : j < i}) = k - 1

\* C18: for a dashed line of five runs, parse_dash_line_to_range returns, for
\* k = 1..4, the range from the start to the end of run k, and as the fifth
\* the range from the start of run 5 to the end of the line, trailing spaces
\* or not; "--- --- ---- ---- -----" gives 0..3, 4..7, 8..12, 13..17, 18..23.
C18_RangesBoundRuns ==
    fnRes # <<>> =>
        /\ fnRes[1].ok
        /\ \A k \in 1..4 :
             fnRes[1].ra[k] = Range(KthRunStart(fnArg, k),
                                    RunEndOf(fnArg, KthRunStart(fnArg, k)))
        /\ fnRes[1].ra[5] = Range(KthRunStart(fnArg, 5), Len(fnArg))

\* The part of a name before its first separator (the whole name without one).
RECURSIVE TopDir(_)
TopDir(name) ==
    IF name = <<>> \/ Head(name) = "/" THEN <<>>
    ELSE <<Head(name)>> \o TopDir(Tail(name))

\* The name is d itself or starts with d followed by a separator.
Under(name, d) == name = d \/ IsPrefix(Append(d, "/"), name)

\* C19: on two or more names check_same_directory returns Some(d + "/") when
\* every name is d or starts with d + "/" for one directory name d, and None
\* when there is no such d.
C19_SameTopDirectory ==
    (fnRes # <<>> /\ Len(fnArg) >= 2) =>
        LET d == TopDir(fnArg[1])
        IN  /\ fnRes[1].ok
            /\ fnRes[1].val = (IF \A k \in 1..Len(fnArg) : Under(fnArg[k], d)
                               THEN <<Append(d, "/")>> ELSE <<>>)

\* p ends at a separator and every name starts with it or is the directory
\* p names.
CommonPathPrefix(p, names) ==
    /\ p # <<>> /\ p[Len(p)] = "/"
    /\ \A k \in 1..Len(names) : IsPrefix(p, names[k]) \/ p = Append(names[k], "/")

\* The prefixes of the first name followed by a separator.
PrefixesOfFirst(names) ==
    IF names = <<>> THEN {}
    ELSE {SubSeq(Append(names[1], "/"), 1, n) : n \in 0..(Len(names[1]) + 1)}

HasSeparator(name) == \E i \in 1..Len(name) : name[i] = "/"

\* C20: check_same_directory returns the longest prefix common to all names
\* that ends at a separator ("a/b/" for "a/b/c" and "a/b/d"), and None when
\* there is none, as for a single name without a separator.
C20_LongestCommonPathPrefix ==
    fnRes # <<>> =>
        LET common == {p \in PrefixesOfFirst(fnArg) : CommonPathPrefix(p, fnArg)}
        IN  /\ fnRes[1].ok
            /\ IF common = {} \/ (Len(fnArg) = 1 /\ ~HasSeparator(fnArg[1]))
               THEN fnRes[1].val = <<>>
               ELSE /\ fnRes[1].val # <<>>
                    /\ fnRes[1].val[1] \in common
                    /\ \A p \in common : Len(p) <= Len(fnRes[1].val[1])

(***************************************************************************)
(* Claims about the Document (checked under SpecDoc).                      *)
(***************************************************************************)
\* The display's Password(pwd) reaches write_password.
PasswordStep(pwd) == opsSent' = opsSent + 1 /\ oper' = Op("Password", pwd)

ExtractToStep(path) == opsSent' = opsSent + 1 /\ oper' = Op("ExtractTo", path)

\* C15: after ExtractTo(path) the target is path and Document.output() holds a
\* line that shows the path.
C15_ExtractToShown ==
    [][\A path \in Dirs :
         (ExtractToStep(path) /\ alive') =>
           /\ extract_to_path' = <<path>>
           /\ \E k \in DOMAIN output(doc') : contains(output(doc')[k], Chars(path))]_vars

\* No builder of the Document d claims the line s.
Unclaimed(d, s) ==
    /\ ~FileListLB_input(d.file_list_lb, s).claimed
    /\ \A k \in DOMAIN d.inner : ~LB_input(d.inner[k], s, <<>>, TRUE).claimed

\* The builders whose output differs between the Documents d and e of one
\* layout; 0 stands for the FileListLB.
ChangedOutputs(d, e) ==
    {k \in DOMAIN d.inner : LB_output(d.inner[k]) # LB_output(e.inner[k])}
    \cup (IF FileListLB_output(d.file_list_lb) # FileListLB_output(e.file_list_lb)
          THEN {0} ELSE {})

\* The lines of the sequence v.
LinesOf(v) == {v[k] : k \in DOMAIN v}

\* C16: a raw line fed to the Document changes the output of at most one
\* builder, and a line no builder claims leaves the Document as it was and
\* does not enter its output.
C16_OneClassifier ==
    [][\A l \in RawLines :
         (DocLine(l) /\ alive') =>
           /\ Cardinality(ChangedOutputs(doc, doc')) <= 1
           /\ Unclaimed(doc, l) =>
                /\ doc' = doc
                /\ l \in LinesOf(output(doc')) => l \in LinesOf(output(doc))]_vars

\* No two neighbours of the sequence v are equal.
NoRepeat(v) == \A k \in 1..(Len(v) - 1) : v[k] # v[k + 1]

\* C17: Document.output() never holds the same line twice in a row; a call
\* of output() leaves the Document as it was, and on the Document of the last
\* call it returns what that call returned.
C17_OutputDeduplicated ==
    /\ [](NoRepeat(output(doc)) /\ (fnArg = <<doc>> => fnRes = <<output(doc)>>))
    /\ [][fvars' # fvars => doc' = doc]_vars

\* output() was called on the extract layout, after a listing had begun, and
\* dropped repeated lines.
C17_Witness ==
    /\ alive /\ fnArg = <<doc>> /\ fnRes = <<output(doc)>>
    /\ Len(doc.inner) = Len(Lines_new("Extract"))
    /\ doc.file_list_lb.begin_line # <<>>
    /\ Len(output(doc)) < Len(lines(doc))

\* The names share a top-level directory: with two names or more each is the
\* directory or lies under it, a single name has a separator.
SharesTopDirectory(names) ==
    IF Len(names) >= 2
    THEN \A k \in 1..Len(names) : Under(names[k], TopDir(names[1]))
    ELSE Len(names) = 1 /\ HasSeparator(names[1])

\* executing_cmd finds that the child of a List has exited with success.
ListSucceeded ==
    /\ pcCmd = "wait" /\ cmd = "List"
    /\ pcCmd' # "wait" /\ execute_status' = StatusNone /\ alive'

\* C14: when a List succeeds and the captured names share no top-level
\* directory the target gains the archive's base name and one Pushment::Line
\* with the new target is sent; otherwise the target stays and no Line is sent.
C14_BaseNameAppended ==
    /\ [][ListSucceeded =>
            IF ~SharesTopDirectory(files(doc))
            THEN extract_to_path' = Append(extract_to_path, FileStem)
                 /\ pcCmd' = "sendLine"
            ELSE extract_to_path' = extract_to_path /\ pcCmd' = "recv"]_vars
    /\ [][pcCmd = "sendLine" /\ pcCmd' # "sendLine" =>
            docQueue' = Append(docQueue, PushLine(4, extract_to_path))]_vars

(***************************************************************************)
(* Claims about the launch of the child and the end of a run (checked      *)
(* under Spec).                                                            *)
(***************************************************************************)
\* execute_cmd spawns the child of the command in hand.
LaunchStep == run' = run + 1

\* C21 (as stated): the password a launch is given is the one stored when its
\* command was dequeued, that is, the stored password does not change between
\* the dequeue and the command loop's reading of it.
C21_PasswordAtDequeue ==
    [][(pcCmd \in {"pending", "password"}) => (password' = password)]_vars

\* C21 (amended): a List is launched with "l" and the file, an Extract with
\* "x", the file, "-y" and "-o<path>", followed by "-p<password>" exactly
\* when a password was stored when the command loop read it, which it does
\* after it has written Pedding; there is never a "-p" without a password.
C21_LaunchArgs ==
    /\ [][(pcCmd = "password" /\ pcCmd' # pcCmd) => cmdPassword' = password]_vars
    /\ [][cmdPassword' # cmdPassword => (pcCmd = "password" \/ cmd' = "")]_vars
    /\ [][LaunchStep =>
            LET base == IF cmd = "List"
                        THEN <<(<<"l">>), <<File>>>>
                        ELSE <<(<<"x">>), <<File>>, <<"-y">>, <<"-o">> \o cmdExtractTo>>
            IN  childArgs' = IF cmdPassword = <<>> THEN base
                             ELSE Append(base, <<"-p", cmdPassword[1]>>)]_vars

\* An Extract runs with a password, and a List ran without one before it.
C21_Witness ==
    /\ childState = "running" /\ cmd = "Extract" /\ run = 2
    /\ childArgs = <<(<<"x">>), <<File>>, <<"-y">>, <<"-o">> \o cmdExtractTo,
                     <<"-p", "p1">>>>

\* C22: the execute status leaves Pedding only when read_output has returned
\* and the child has exited; read_output returns by putting the end signal on
\* the output queue, and nothing is put on that queue except while the status
\* is Pedding and read_output runs, so every event of the run is queued
\* before the status changes.
C22_DrainedBeforeFinished ==
    /\ [][(execute_status = Pedding /\ execute_status' # Pedding) =>
            (pcCmd = "wait" /\ childState = "exited")]_vars
    /\ [][(pcCmd # "wait" /\ pcCmd' = "wait") =>
            (pcCmd = "eof" /\ optQueue' = Append(optQueue, None))]_vars
    /\ [][Len(optQueue') > Len(optQueue) =>
            (execute_status = Pedding /\ pcCmd \in {"read", "eof"})]_vars

\* The first List has succeeded while its end signal is still on the queue.
C22_Witness ==
    /\ run = 1 /\ execute_status = StatusNone /\ pcCmd = "recv"
    /\ optQueue = <<None>>

\* A step of operation_make on the Operation it has received.
IntakeStep ==
    \/ OpExecute \/ OpRetry \/ set_extract_to_path
    \/ WpStdin \/ WpPassword \/ WpDoc
    \/ SpStatus \/ SpClear \/ SpSend \/ SpStash

\* C24: while the command loop waits for a child that is still running, the
\* intake is never stuck on the Operation it has received: its next step can
\* be taken without the child or the command loop moving.
C24_IntakeNotBlocked ==
    (alive /\ pcCmd = "read" /\ childState = "running" /\ pcOp # "recv")
        => ENABLED IntakeStep

\* C25: no task holds a lock on the password, the extraction path, the execute
\* status, the selected password, the stdin slot or the Document while it is
\* suspended on a queue send: whenever the command loop waits in
\* doc_sender.send for room on the display queue, the write locks of
\* execute_status, document and extract_to_path are free.
C25_NoLockAcrossSend ==
    (alive /\ pcCmd = "sendLine" /\ ~HasRoom(docQueue))
        => ~(StatusLocked \/ DocLocked \/ ExtractLocked)

(***************************************************************************)
(* Claims about the line builders (checked under SpecDoc).                 *)
(***************************************************************************)
\* The FileListLB of d is capturing rows and s is a row that ends before the
\* fifth column of its template begins.
ShortRow(d, s) ==
    LET fl == d.file_list_lb
    IN  /\ fl.capture /\ fl.end_line = <<>> /\ fl.template # <<>>
        /\ s # <<>> /\ ~starts_with(s, Lit.Rule)
        /\ Len(s) < fl.template[1][5].start

\* C23: a row shorter than the template, fed while rows are captured, does
\* not end the program, and the rows captured before it are kept.
C23_ShortRowKept ==
    [][\A l \in RawLines :
         (DocLine(l) /\ ShortRow(doc, l)) =>
           /\ alive'
           /\ \A k \in DOMAIN files(doc) : files(doc')[k] = files(doc)[k]]_vars

\* The phase of a FileListLB: before the first rule, capturing rows, waiting
\* for the summary after the second rule, or done.
Phase(fl) ==
    IF fl.begin_line = <<>> THEN "before"
    ELSE IF fl.capture /\ fl.end_line = <<>> THEN "rows"
    ELSE IF fl.capture THEN "summary"
    ELSE "after"

IsRule(l) == starts_with(l, Lit.Rule)

\* Before the first rule no row is captured, and the first rule starts the
\* capture.
C26_Before(l) ==
    Phase(doc.file_list_lb) = "before" =>
        /\ doc'.file_list_lb.inner = <<>>
        /\ Phase(doc'.file_list_lb) = IF IsRule(l) THEN "rows" ELSE "before"

\* While rows are captured every non-rule, non-empty line is stored as one
\* FileLine after the rows stored so far, and the second rule ends the rows.
C26_Rows(l) ==
    Phase(doc.file_list_lb) = "rows" =>
        LET old == doc.file_list_lb.inner
            new == doc'.file_list_lb.inner
        IN  IF IsRule(l) THEN new = old /\ Phase(doc'.file_list_lb) = "summary"
            ELSE IF l = <<>> THEN new = old
            ELSE /\ alive'
                 /\ Len(new) = Len(old) + 1
                 /\ SubSeq(new, 1, Len(old)) = old
                 /\ new[Len(new)].raw \o new[Len(new)].filename = l

\* Exactly the line after the second rule is the summary.
C26_Summary(l) ==
    Phase(doc.file_list_lb) = "summary" =>
        /\ doc'.file_list_lb.inner = doc.file_list_lb.inner
        /\ doc'.file_list_lb.summary_line = l
        /\ Phase(doc'.file_list_lb) = "after"

\* After the summary no line is captured as a row or as the summary.
C26_After(l) ==
    Phase(doc.file_list_lb) = "after" =>
        /\ doc'.file_list_lb.inner = doc.file_list_lb.inner
        /\ doc'.file_list_lb.summary_line = doc.file_list_lb.summary_line
        /\ Phase(doc'.file_list_lb) = "after"

\* C26: the FileListing goes through three phases driven by the "-----"
\* rules: before the first rule no row is captured; from the first rule on
\* every non-rule, non-empty line is stored as one FileLine in arrival order;
\* the second rule ends the rows and exactly the next line is the summary;
\* afterwards no line is captured as a row or as the summary.
C26_ThreePhases ==
    [][\A l \in RawLines :
         DocLine(l) =>
            C26_Before(l) /\ C26_Rows(l) /\ C26_Summary(l) /\ C26_After(l)]_vars

\* A builder as its constructor leaves it.
Fresh(lb) == lb.text = <<>> /\ ~lb.done /\ lb.lines = <<>> /\ lb.history = <<>>

\* C27: layout_list and layout_extract replace every line builder by a fresh
\* one except the FileListLB: files() and the whole state of the FileListLB
\* are the same after the switch, and every other builder is reset.
C27_LayoutKeepsFileList ==
    [][\A c \in {"List", "Extract"} :
         DocLayout(c) =>
            LET d == layout(doc, c)
            IN  /\ d.file_list_lb = doc.file_list_lb
                /\ files(d) = files(doc)
                /\ Len(d.inner) = Len(Lines_new(c))
                /\ \A k \in DOMAIN d.inner :
                      Fresh(d.inner[k]) /\ d.inner[k].kind = Lines_new(c)[k].kind
                /\ (c = "Extract") => (doc' = d)]_vars

\* The layout of an extraction has just been applied to a Document that holds
\* captured rows: the rows are there and every other builder is fresh.
C27_Witness ==
    /\ alive /\ cmd = "Extract" /\ pcCmd = "wait"
    /\ files(doc) # <<>>
    /\ Phase(doc.file_list_lb) = "rows"
    /\ \A k \in DOMAIN doc.inner : Fresh(doc.inner[k])
    /\ Len(doc.inner) = Len(Lines_new("Extract"))

\* What the ErrorLB of d holds, <<>> when d has no ErrorLB.
ErrorTexts(d) ==
    LET e == SelectSeq(d.inner, LAMBDA lb : lb.kind = "Error")
    IN  [k \in DOMAIN e |-> e[k].text]

\* C28: the ErrorLB is one-shot: it captures the first line that starts with
\* "ERROR:" and renders exactly that line, and a later "ERROR:" line does not
\* change it.  The lines are those that reach the builders, the FileListLB
\* not capturing.
C28_ErrorOneShot ==
    [][\A l \in RawLines :
         (DocLine(l) /\ starts_with(l, Lit.Error) /\ ~doc.file_list_lb.capture) =>
            \A k \in DOMAIN ErrorTexts(doc) :
               ErrorTexts(doc')[k] =
                  IF ErrorTexts(doc)[k] = <<>> THEN l ELSE ErrorTexts(doc)[k]]_vars

(***************************************************************************)
(* Claims about the FileListLB on its own (checked under SpecList).        *)
(***************************************************************************)
\* The rows among the lines a FileListLB renders: what follows the header and
\* the first rule.
RenderedRows(fl, out) ==
    LET skip == Len(fl.header_line) + Len(fl.begin_line)
    IN  [k \in DOMAIN fl.inner |-> out[skip + k]]

\* C29: a captured FileLine renders as prefix_text + extract_path + filename,
\* prefix_text the row up to the start of the fifth column and filename the
\* rest of the row; changing the extract path after rows are captured
\* changes only how they render, files() and every prefix_text staying as
\* they were; with an empty extract path a row renders as the original row.
C29_RenderWithPath ==
    [][\A l \in ListLines :
         (ListInput(l) /\ alive') =>
            LET fl == doc.file_list_lb
                new == doc'.file_list_lb
                rows == RenderedRows(new, fnRes'[1])
                n == Len(fl.inner)
            IN  /\ Len(fnRes'[1]) >= Len(new.header_line) + Len(new.begin_line) + Len(new.inner)
                /\ \A k \in DOMAIN new.inner :
                      /\ rows[k] = new.inner[k].raw \o new.extract_path
                                    \o new.inner[k].filename
                      /\ (new.extract_path = <<>>) =>
                            (rows[k] = new.inner[k].raw \o new.inner[k].filename)
                /\ SubSeq(new.inner, 1, n) = fl.inner
                /\ (Len(new.inner) > n) =>
                      LET f == new.inner[n + 1]
                          fifth == new.template[1][5].start
                      IN  /\ Len(new.inner) = n + 1
                          /\ f.raw = SubSeq(l, 1, fifth)
                          /\ f.filename = SubSeq(l, fifth + 1, Len(l))
                          /\ f.raw \o f.filename = l
                /\ (new.extract_path # fl.extract_path) =>
                      /\ files(doc') = files(doc)
                      /\ new = [fl EXCEPT !.extract_path = new.extract_path]]_vars

\* The table is complete with a row captured, and the extract path was set
\* afterwards: the row renders with the path between prefix and name.
C29_Witness ==
    LET fl == doc.file_list_lb
    IN  /\ alive /\ Phase(fl) = "after" /\ fl.inner # <<>>
        /\ fl.extract_path = <<"d", "/">>
        /\ fnArg = <<Lit.SetExtractPath \o <<" ", "d", "/">>>>
        /\ fnRes # <<>>
        /\ RenderedRows(fl, fnRes[1])[1] =
              fl.inner[1].raw \o <<"d", "/">> \o fl.inner[1].filename
        /\ fl.inner[1].filename \in {<<"a">>, <<"d", "/", "a">>}

(***************************************************************************)
(* Claims about the pushes to the display (checked under SpecFair).        *)
(***************************************************************************)
\* A Pushment is on its way to the display, or the program has ended.
Pushed == docQueue # <<>> \/ ~alive

\* Nothing is on its way to the display.
NothingPushed == alive /\ docQueue = <<>>

\* The display has sent every operation a run of the model gives it: such
\* runs are left out, so that a run that ends unpushed ends with the display
\* still free to send.
DisplaySpent == opsSent = MaxOps

\* C30: whenever the state of the orchestrator or of the Document changes (a
\* line of the child is applied, a Password or an ExtractTo is applied, a
\* command completes), a Pushment is eventually sent to the display: from
\* the point where the change is about to be made with nothing on its way to
\* the display, a Pushment is sent (or the display spends its operations).
C30_ChangePushed ==
    /\ (NothingPushed /\ pcRead = "recv" /\ optQueue # <<>> /\ Head(optQueue).some)
          ~> (Pushed \/ DisplaySpent)
    /\ (NothingPushed /\ pcOp \in {"extractTo", "wp_doc"}) ~> (Pushed \/ DisplaySpent)
    /\ (NothingPushed /\ pcCmd = "wait") ~> (Pushed \/ DisplaySpent)

(***************************************************************************)
(* Claims about waits between the tasks (checked under SpecDeep and Spec). *)
(***************************************************************************)
\* The intake waits in cmd_sender.send on the full command queue.
IntakeWaitsOnCmd == pcOp \in {"execute", "sp_send"} /\ ~HasRoom(cmdQueue)

\* The command loop is in read_output with nothing to read from its child,
\* or waits there to send a line to the full output queue.
CmdWaitsOnChild ==
    /\ pcCmd = "read"
    /\ ~ENABLED (CmdReadLine \/ CmdReadPrompt \/ ChildExit \/ CmdReadEof)

\* The read loop waits in oper_sender.send on the full operation queue.
ReadWaitsOnOper == pcRead = "sendOper" /\ ~HasRoom(operQueue)

\* C31: the three queues of capacity 1 never form a circular wait: in no
\* reachable state does the intake wait to send a Cmd to the full command
\* queue while the command loop waits on its child and the read loop waits
\* to send Operation::Password to the full operation queue.
C31_NoCircularWait ==
    ~(alive /\ IntakeWaitsOnCmd /\ CmdWaitsOnChild /\ ReadWaitsOnOper)

\* The intake holds the write lock of extract_to_path and waits for the
\* Document.
IntakeHoldsExtract == pcOp = "extractTo_doc" /\ DocLocked

\* The command loop holds the write lock of the Document and waits for
\* extract_to_path.
CmdHoldsDocument == pcCmd = "layout" /\ ExtractLocked

\* C32: the order in which the locks are taken cannot deadlock: in no
\* reachable state does the intake hold the lock of extract_to_path and wait
\* for the Document while the command loop, at the start of a List, holds
\* the Document and waits for extract_to_path.
C32_NoLockOrderDeadlock == ~(alive /\ IntakeHoldsExtract /\ CmdHoldsDocument)

(***************************************************************************)
(* Claims about repeated runs (checked under SpecDoc).                     *)
(***************************************************************************)
\* The target is a directory followed by n copies of the archive's base name.
CopiesOfStem(path, n) ==
    /\ Len(path) = n + 1
    /\ \A k \in 2..Len(path) : path[k] = FileStem

\* C33: the base name is appended on every successful List whose names lack
\* a common top-level directory, not only on the first: a target that holds
\* n copies of the base name holds n + 1 after such a List, so that n such
\* Lists with no ExtractTo in between leave the initial directory followed
\* by n copies.
C33_BaseNameEveryList ==
    [][\A n \in 0..MaxCalls :
         (ListSucceeded /\ ~SharesTopDirectory(files(doc))
            /\ CopiesOfStem(extract_to_path, n)) =>
               /\ CopiesOfStem(extract_to_path', n + 1)
               /\ extract_to_path'[1] = extract_to_path[1]]_vars

\* What the PasswordLB of d renders, <<>> when d has no PasswordLB.
PasswordLines(d) ==
    LET e == SelectSeq(d.inner, LAMBDA lb : lb.kind = "Password")
    IN  IF e = <<>> THEN <<>> ELSE e[1].lines

\* C34: feeding "Input password: <text>" to a Document in list or extract
\* layout is safe in every state of the PasswordLB, also when no prompt has
\* been seen since the layout: write_password's input does not fail and the
\* password line then renders as "Enter password: <text>".
C34_InputPasswordSafe ==
    [][\A pwd \in TypedPasswords \cup HistoryPasswords :
         (DocPassword(pwd) /\ doc.inner # <<>> /\ ~SamePassword(password, pwd)) =>
            /\ alive'
            /\ PasswordLines(doc') # <<>>
            /\ PasswordLines(doc')[1] = Lit.EnterPasswordColon \o Chars(pwd)]_vars

(***************************************************************************)
(* Claims about listing again (checked under SpecRelist).                  *)
(***************************************************************************)
\* C35: listing the same archive again does not duplicate entries: once a
\* table has been captured whole, no step of a further List or Extract run
\* that feeds the table's lines changes Document.files(): the names stay
\* those of the first run, each once and in the original order.
C35_NoDuplicateEntries ==
    [][(Phase(doc.file_list_lb) = "after") =>
          /\ files(doc') = files(doc)
          /\ Phase(doc'.file_list_lb) = "after"]_vars

\* A List has ended with success and an Extract has been laid out since, the
\* Document locked as often as the run allows: the table of two rows,
\* captured whole, still holds each name once.
C35_Witness ==
    /\ alive /\ Phase(doc.file_list_lb) = "after"
    /\ files(doc) = <<(<<"a">>), <<"d", "/", "a">>>>
    /\ extract_to_path = <<"dir", FileStem>>
    /\ cmd = "Extract" /\ pcCmd = "wait"
    /\ calls = MaxRelistCalls

(***************************************************************************)
(* Claims about what the stream reader keeps (checked under SpecReader).   *)
(***************************************************************************)
\* The bytes of a source that are neither line feed nor backspace.
Payload(bytes) == SelectSeq(bytes, LAMBDA b : b \notin {LF, BS})

\* The text of the line events of one source, one line after the other.
Emitted(from) ==
    LET ev == EventsOf(from)
    IN  Flatten([k \in DOMAIN ev |-> ev[k].text])

\* C36: the stream reader loses no output: when it has stopped, every byte
\* other than line feed and backspace that a source delivered is in exactly
\* one line event of that source, in order, whichever source closed first;
\* so a last line without a line feed is emitted for either source.
C36_NoOutputLost ==
    rdone => \A from \in 1..2 : Emitted(from) = Payload(given[from])

=============================================================================
